---------------------------- MODULE Spec2Model ----------------------------
(***************************************************************************)
(* The i+1 sentence sequencer of chinese-i-plus-one: SentenceOrganizer of  *)
(* src/organizer.py (known_words, the bucket index, the sentence records,  *)
(* the word -> sentences reverse index, the batch counter) and the calls   *)
(* a client makes on it: get_next_sentence and learn_sentence.             *)
(*                                                                         *)
(* A sentence is the sequence of its characters; None is the empty         *)
(* sequence (the driver tests `if not sentence`, src/selection.py:44).     *)
(***************************************************************************)
EXTENDS Integers, Sequences, FiniteSets, TLC

(***************************************************************************)
(* Bounds and input universes.                                             *)
(***************************************************************************)
\* Longest corpus (number of sentences handed to the constructor).
MaxCorpus == 3

\* The vocabulary of the corpus.
Words == {"A", "B", "C"}

\* src/organizer.py:7 (one representative of the punctuation set).
PUNCTUATION == {"."}

\* float('inf'), the rank of a word missing from the rank table
\* (src/organizer.py:50); larger than every rank of RankTables.
Inf == 1000

None == << >>

\* {} of a dict or of a defaultdict.
EmptyDict == [x \in {} |-> {}]

\* The sentences a corpus is drawn from: every pair of distinct words, a
\* repeated token, three distinct words.
Sentences ==
    { <<"A", "B">>, <<"A", "C">>, <<"B", "C">>, <<"C", "C">>,
      <<"A", "B", "C">> }

\* Keys of the bucket index: a record has at most this many unknown words.
MaxSentLen == CHOOSE n \in 1..8 : /\ \A s \in Sentences : Len(s) <= n
                                 /\ \E s \in Sentences : Len(s) = n

Corpora == UNION { [1..n -> Sentences] : n \in 0..MaxCorpus }

\* A sentence of 25 words.
LongSentence == [i \in 1..25 |-> IF i % 2 = 1 THEN "A" ELSE "B"]

\* Sentences of every length and shape a corpus file can hold: two words,
\* three words, three words and a full stop, two words and a full stop,
\* 25 words.
RawSentences ==
    { <<"A", "B">>, <<"A", "B", "C">>, <<"A", "B", "C", ".">>,
      <<"B", "C", ".">>, LongSentence }

RawCorpora == UNION { [1..n -> RawSentences] : n \in 0..MaxCorpus }

\* Longest text handed to segment_sentence, and largest max_word_len.
MaxTextLen == 3

MaxWordLen == 3

\* The texts segment_sentence is called on, as sequences of characters.
Texts == UNION { [1..n -> Words] : n \in 0..MaxTextLen }

\* The words a word list is drawn from.
Dictionary == { <<"A">>, <<"A", "B">>, <<"B", "C">>, <<"A", "B", "C">> }

\* No call of segment_sentence is under way.
NotSegmenting == [pc |-> "idle"]

\* No call of split_audio is under way.
NoSplit == [pc |-> "idle"]

\* No output CSV is looked at.
NoEnhance == [pc |-> "idle"]

\* Longest corpus handed to two organizers of one process.
MaxTwinCorpus == 2

TwinCorpora == UNION { [1..n -> Sentences] : n \in 0..MaxTwinCorpus }

\* No second organizer has been built.
NoTwin == [op |-> "idle"]

\* Most segments handed to split_audio, and most worker processes.
MaxSegments == 3

MaxWorkers == 2

\* The texts of the segments, as sequences of characters: a letter, a blank
\* and a character that is invalid in a filename.
SegmentTexts == { <<"a">>, <<"a", " ", " ", "?", "b">> }

\* Most rows of the input CSV.
MaxRows == 3

\* The Sentence fields of a CSV file: two texts and the empty field.
SentenceFields == { "x", "y", "" }

\* No file at the path.
NoFile == [exists |-> FALSE, rows |-> << >>]

\* The file with these rows under its header.
File(rows) == [exists |-> TRUE, rows |-> rows]

\* Longest corpus of repeated and short sentences.
MaxPickCorpus == 4

\* Sentences of one word said twice, and one of two words.
PickSentences == { <<"A", "A">>, <<"C", "C">>, <<"A", "B">> }

PickCorpora == UNION { [1..n -> PickSentences] : n \in 0..MaxPickCorpus }

\* Rank tables: a strict one, and one that lacks the word C.
RankTables ==
    { [w \in Words |-> CASE w = "A" -> 1 [] w = "B" -> 2 [] OTHER -> 3],
      [w \in {"A", "B"} |-> IF w = "A" THEN 1 ELSE 2] }

\* initial_words: the k most frequent words (src/organizer.py:182,
\* src/selection.py:21), k = 0, 1, 2.
InitialWordSets == { {}, {"A"}, {"A", "B"} }

VARIABLES
    sentences,          \* constructor argument: the corpus, in order
    word_ranks,         \* constructor argument: word -> rank
    initial_words,      \* constructor argument
    known_words,        \* self.known_words
    sentence_buckets,   \* self.sentence_buckets: [1] a list, [n >= 2] a set
    sentence_data,      \* self.sentence_data: sentence -> record
    word_to_sentences,  \* self.word_to_sentences: word -> set of sentences
    skipped_sentences,  \* self.skipped_sentences
    n2_sentences_used,  \* self.n2_sentences_used
    has_n1_counter,     \* hasattr(self, '_n1_counter')
    n1_counter,         \* self._n1_counter (0 while the attribute is absent)
    last,               \* the call made last: operation, argument, outcome
    driver,             \* the calls so far are those of generate_sequence
    sequence_data,      \* what the returned learn_sentence calls produced
    seg,                \* a call of segment_sentence: its arguments and locals
    twin,               \* two organizers in one process, and the sets they hold
    batch,              \* the batch under way: its size when sorted, the
                        \* sentences get_next_sentence has returned since
    rescan,             \* the full-rescan organizer of src/jieba_segmenter.py
                        \* built from the same arguments and taught the same
                        \* sentences
    split,              \* a call of split_audio of src/prepare_vtt_data.py:
                        \* its pool of worker processes and its locals
    enhance             \* the output CSV and a call of
                        \* enhance_csv_with_segmentation of src/enhance_csv.py

vars == << sentences, word_ranks, initial_words, known_words,
           sentence_buckets, sentence_data, word_to_sentences,
           skipped_sentences, n2_sentences_used, has_n1_counter,
           n1_counter, last, driver, sequence_data, seg, twin,
           batch, rescan, split, enhance >>

(***************************************************************************)
(* Helpers for Python's containers.                                        *)
(***************************************************************************)
Range(s) == { s[i] : i \in 1..Len(s) }

\* dict without one key (del d[k]).
DictDel(d, k) == [x \in DOMAIN d \ {k} |-> d[x]]

\* list.remove(x): drops the first occurrence; ValueError is swallowed.
ListRemove(l, x) ==
    IF x \notin Range(l) THEN l
    ELSE LET i == CHOOSE j \in 1..Len(l) :
                      l[j] = x /\ \A k \in 1..(j - 1) : l[k] # x
         IN  SubSeq(l, 1, i - 1) \o SubSeq(l, i + 1, Len(l))

\* Every order in which a Python set can be iterated.
Orders(S) ==
    { o \in [1..Cardinality(S) -> S] :
        \A i, j \in 1..Cardinality(S) : i # j => o[i] # o[j] }

Max(S) == CHOOSE x \in S : \A y \in S : y <= x

\* Variant of rank_of whose default is below every rank of the table.
rank_of_default_first(ranks, w) == IF w \in DOMAIN ranks THEN ranks[w] ELSE 0

\* self.word_ranks.get(w, float('inf'))
rank_of(ranks, w) == IF w \in DOMAIN ranks THEN ranks[w] ELSE Inf

\* ChineseSegmenter.segment (src/snownlp_segmenter.py:10-18): the cut of the
\* third-party segmenter, here one word per character, without the words
\* that are punctuation.
segment(sentence) ==
    LET cut == [i \in 1..Len(sentence) |-> sentence[i]]
        word(w) == w \notin PUNCTUATION
    IN  SelectSeq(cut, word)

\* list.sort(key=...): stable, ascending.
RECURSIVE sort_by_key(_, _)
sort_by_key(l, key) ==
    IF l = << >> THEN << >>
    ELSE LET front == sort_by_key(SubSeq(l, 1, Len(l) - 1), key)
             x     == l[Len(l)]
             pos   == Cardinality({ i \in 1..Len(front) :
                                      key[front[i]] <= key[x] })
         IN  SubSeq(front, 1, pos) \o << x >>
               \o SubSeq(front, pos + 1, Len(front))

(***************************************************************************)
(* The object under construction and its methods, as operators on the      *)
(* record of its fields.                                                   *)
(***************************************************************************)
Self ==
    [ known_words       |-> known_words,
      sentence_buckets  |-> sentence_buckets,
      sentence_data     |-> sentence_data,
      word_to_sentences |-> word_to_sentences,
      skipped_sentences |-> skipped_sentences,
      n2_sentences_used |-> n2_sentences_used,
      has_n1_counter    |-> has_n1_counter,
      n1_counter        |-> n1_counter ]

\* Adding a sentence to the bucket of its unknown count (lines 54-57, 100-103).
bucket_add(buckets, count, sentence) ==
    IF count = 1
    THEN [buckets EXCEPT ![1] = Append(@, sentence)]
    ELSE [buckets EXCEPT ![count] = @ \cup {sentence}]

\* Variant of bucket_remove without the discard of line 87: a sentence
\* leaving a bucket that is a set stays in it.
bucket_remove_list_only(buckets, old_count, sentence) ==
    IF old_count = 1
    THEN [buckets EXCEPT ![1] = ListRemove(@, sentence)]
    ELSE buckets

\* Removing a sentence from the bucket of its old count (lines 80-87).
bucket_remove(buckets, old_count, sentence) ==
    IF old_count = 1
    THEN [buckets EXCEPT ![1] = ListRemove(@, sentence)]
    ELSE [buckets EXCEPT ![old_count] = @ \ {sentence}]

\* Variant of map_words that registers the sentence under its first word
\* only.
map_words_first_word(w2s, words, sentence) ==
    IF words = << >> THEN w2s
    ELSE LET w   == Head(words)
             old == IF w \in DOMAIN w2s THEN w2s[w] ELSE {}
         IN  [x \in DOMAIN w2s \cup {w} |->
                IF x = w THEN old \cup {sentence} ELSE w2s[x]]

\* defaultdict(set)[word].add(sentence)
RECURSIVE map_words(_, _, _)
map_words(w2s, words, sentence) ==
    IF words = << >> THEN w2s
    ELSE LET w   == Head(words)
             old == IF w \in DOMAIN w2s THEN w2s[w] ELSE {}
         IN  map_words([x \in DOMAIN w2s \cup {w} |->
                          IF x = w THEN old \cup {sentence} ELSE w2s[x]],
                       Tail(words), sentence)

_process_sentence(self, ranks, sentence, words) ==
    LET unknown == { w \in Range(words) : w \notin self.known_words }
    IN  IF unknown = {}
        THEN [self EXCEPT !.skipped_sentences = @ + 1]
        ELSE [self EXCEPT
                !.sentence_data =
                    [x \in DOMAIN @ \cup {sentence} |->
                       IF x = sentence
                       THEN [ words    |-> words,
                              unknown  |-> unknown,
                              max_rank |-> Max({ rank_of(ranks, w) :
                                                   w \in unknown }) ]
                       ELSE @[x]],
                !.sentence_buckets =
                    bucket_add(@, Cardinality(unknown), sentence),
                !.word_to_sentences = map_words(@, words, sentence)]

RECURSIVE process_all(_, _, _)
process_all(self, ranks, corpus) ==
    IF corpus = << >> THEN self
    ELSE process_all(
             _process_sentence(self, ranks, Head(corpus),
                               segment(Head(corpus))),
             ranks, Tail(corpus))

\* SentenceOrganizer.__init__
__init__(corpus, ranks, initial) ==
    process_all(
        [ known_words       |-> PUNCTUATION \cup initial,
          sentence_buckets  |-> [n \in 1..MaxSentLen |->
                                   IF n = 1 THEN << >> ELSE {}],
          sentence_data     |-> EmptyDict,
          word_to_sentences |-> EmptyDict,
          skipped_sentences |-> 0,
          n2_sentences_used |-> 0,
          has_n1_counter    |-> FALSE,
          n1_counter        |-> 0 ],
        ranks, corpus)

\* Variant of sentences_to_check that follows the reverse index for one of
\* the new words only.
sentences_to_check_one_word(self, new_words) ==
    LET indexed == new_words \cap DOMAIN self.word_to_sentences
    IN  IF indexed = {} THEN {}
        ELSE self.word_to_sentences[CHOOSE w \in indexed : TRUE]

\* Lines 66-71: the sentences that contain a new word.
sentences_to_check(self, new_words) ==
    UNION { self.word_to_sentences[w] :
              w \in new_words \cap DOMAIN self.word_to_sentences }

\* Variant of update_sentence without line 90: the sentence is moved between
\* buckets but keeps the new words in its unknown set.
update_sentence_keep_unknown(self, sentence, new_words) ==
    IF sentence \notin DOMAIN self.sentence_data THEN self
    ELSE LET old_count == Cardinality(self.sentence_data[sentence].unknown)
             removed   == bucket_remove(self.sentence_buckets, old_count,
                                        sentence)
         IN  [self EXCEPT
                !.sentence_buckets = bucket_add(removed, old_count, sentence)]

\* Variant of update_sentence without line 96: a sentence that has become
\* fully known is deleted but not counted.
update_sentence_uncounted(self, sentence, new_words) ==
    IF sentence \notin DOMAIN self.sentence_data THEN self
    ELSE LET old_count == Cardinality(self.sentence_data[sentence].unknown)
             removed   == bucket_remove(self.sentence_buckets, old_count,
                                        sentence)
             unknown   == self.sentence_data[sentence].unknown \ new_words
         IN  IF unknown = {}
             THEN [self EXCEPT
                     !.sentence_buckets  = removed,
                     !.sentence_data     = DictDel(@, sentence)]
             ELSE [self EXCEPT
                     !.sentence_buckets =
                         bucket_add(removed, Cardinality(unknown), sentence),
                     !.sentence_data =
                         [@ EXCEPT ![sentence].unknown = unknown]]

\* Variant of update_sentence without the continue of line 97: a sentence
\* that has become fully known goes on to the count-1 list.
update_sentence_readded(self, sentence, new_words) ==
    IF sentence \notin DOMAIN self.sentence_data THEN self
    ELSE LET old_count == Cardinality(self.sentence_data[sentence].unknown)
             removed   == bucket_remove(self.sentence_buckets, old_count,
                                        sentence)
             unknown   == self.sentence_data[sentence].unknown \ new_words
         IN  IF unknown = {}
             THEN [self EXCEPT
                     !.sentence_buckets  = bucket_add(removed, 1, sentence),
                     !.sentence_data     = DictDel(@, sentence),
                     !.skipped_sentences = @ + 1]
             ELSE [self EXCEPT
                     !.sentence_buckets =
                         bucket_add(removed, Cardinality(unknown), sentence),
                     !.sentence_data =
                         [@ EXCEPT ![sentence].unknown = unknown]]

\* Lines 76-103: one iteration of the loop over sentences_to_check.
update_sentence(self, sentence, new_words) ==
    IF sentence \notin DOMAIN self.sentence_data THEN self
    ELSE LET old_count == Cardinality(self.sentence_data[sentence].unknown)
             removed   == bucket_remove(self.sentence_buckets, old_count,
                                        sentence)
             unknown   == self.sentence_data[sentence].unknown \ new_words
         IN  IF unknown = {}
             THEN [self EXCEPT
                     !.sentence_buckets  = removed,
                     !.sentence_data     = DictDel(@, sentence),
                     !.skipped_sentences = @ + 1]
             ELSE [self EXCEPT
                     !.sentence_buckets =
                         bucket_add(removed, Cardinality(unknown), sentence),
                     !.sentence_data =
                         [@ EXCEPT ![sentence].unknown = unknown]]

RECURSIVE update_all(_, _, _)
update_all(self, order, new_words) ==
    IF order = << >> THEN self
    ELSE update_all(update_sentence(self, Head(order), new_words),
                    Tail(order), new_words)

\* Variant of _update_buckets without line 71: the entries of the learned
\* words stay in the reverse index.
_update_buckets_keep_index(self, new_words, order) ==
    update_all(self, order, new_words)

\* SentenceOrganizer._update_buckets; order is the order in which the set
\* sentences_to_check is iterated.
_update_buckets(self, new_words, order) ==
    update_all(
        [self EXCEPT !.word_to_sentences =
            [w \in DOMAIN @ \ new_words |-> @[w]]],
        order, new_words)

\* Variant of skip_known without the test of line 133: the front of the
\* list is returned whether or not it still has a record.
skip_known_unchecked(self) ==
    LET bucket == self.sentence_buckets[1]
    IN  IF self.n1_counter > 0 /\ bucket # << >>
        THEN [ self  |-> [self EXCEPT !.n1_counter = @ - 1],
               found |-> TRUE, ret |-> Head(bucket) ]
        ELSE [self |-> self, found |-> FALSE, ret |-> None]

\* Variant of skip_known that counts the entries it drops as skipped.
RECURSIVE skip_known_counting(_)
skip_known_counting(self) ==
    LET bucket == self.sentence_buckets[1]
    IN  IF self.n1_counter > 0 /\ bucket # << >>
        THEN LET dec == [self EXCEPT !.n1_counter = @ - 1]
             IN  IF Head(bucket) \in DOMAIN self.sentence_data
                 THEN [self |-> dec, found |-> TRUE, ret |-> Head(bucket)]
                 ELSE skip_known_counting(
                          [dec EXCEPT !.sentence_buckets[1] = Tail(@),
                                      !.skipped_sentences = @ + 1])
        ELSE [self |-> self, found |-> FALSE, ret |-> None]

\* Variant of skip_known that pops the entry it returns.
RECURSIVE skip_known_popping(_)
skip_known_popping(self) ==
    LET bucket == self.sentence_buckets[1]
    IN  IF self.n1_counter > 0 /\ bucket # << >>
        THEN LET dec == [self EXCEPT !.n1_counter = @ - 1,
                                     !.sentence_buckets[1] = Tail(@)]
             IN  IF Head(bucket) \in DOMAIN self.sentence_data
                 THEN [self |-> dec, found |-> TRUE, ret |-> Head(bucket)]
                 ELSE skip_known_popping(dec)
        ELSE [self |-> self, found |-> FALSE, ret |-> None]

\* Variant of skip_known that does not count the sentence it returns.
RECURSIVE skip_known_uncounted(_)
skip_known_uncounted(self) ==
    LET bucket == self.sentence_buckets[1]
    IN  IF self.n1_counter > 0 /\ bucket # << >>
        THEN IF Head(bucket) \in DOMAIN self.sentence_data
             THEN [self |-> self, found |-> TRUE, ret |-> Head(bucket)]
             ELSE skip_known_uncounted(
                      [self EXCEPT !.n1_counter = @ - 1,
                                   !.sentence_buckets[1] = Tail(@)])
        ELSE [self |-> self, found |-> FALSE, ret |-> None]

\* Variant of skip_known without the pop of line 135: an entry without a
\* record stays at the front while the counter runs down.
RECURSIVE skip_known_keeping(_)
skip_known_keeping(self) ==
    LET bucket == self.sentence_buckets[1]
    IN  IF self.n1_counter > 0 /\ bucket # << >>
        THEN LET dec == [self EXCEPT !.n1_counter = @ - 1]
             IN  IF Head(bucket) \in DOMAIN self.sentence_data
                 THEN [self |-> dec, found |-> TRUE, ret |-> Head(bucket)]
                 ELSE skip_known_keeping(dec)
        ELSE [self |-> self, found |-> FALSE, ret |-> None]

\* Lines 129-135: the while loop; found is FALSE when it ends without return.
RECURSIVE skip_known(_)
skip_known(self) ==
    LET bucket == self.sentence_buckets[1]
    IN  IF self.n1_counter > 0 /\ bucket # << >>
        THEN LET dec == [self EXCEPT !.n1_counter = @ - 1]
             IN  IF Head(bucket) \in DOMAIN self.sentence_data
                 THEN [self |-> dec, found |-> TRUE, ret |-> Head(bucket)]
                 ELSE skip_known([dec EXCEPT
                                    !.sentence_buckets[1] = Tail(@)])
        ELSE [self |-> self, found |-> FALSE, ret |-> None]

\* Lines 114-127: drop the entries without a record, sort, reset the counter.
clean_and_sort(self) ==
    LET live(s)  == s \in DOMAIN self.sentence_data
        bucket   == SelectSeq(self.sentence_buckets[1], live)
        key      == [s \in Range(bucket) |->
                       self.sentence_data[s].max_rank]
    IN  IF bucket # << >>
        THEN [self EXCEPT
                !.sentence_buckets[1] = sort_by_key(bucket, key),
                !.has_n1_counter = TRUE,
                !.n1_counter = (Len(bucket) + 1) \div 2]
        ELSE [self EXCEPT !.sentence_buckets[1] = bucket]

\* SentenceOrganizer.get_next_sentence: the object afterwards and the value
\* returned.
RECURSIVE get_next_sentence(_)
get_next_sentence(self) ==
    IF self.sentence_buckets[1] # << >>
    THEN LET resort == ~self.has_n1_counter \/ self.n1_counter <= 0
             sorted == IF resort THEN clean_and_sort(self) ELSE self
         IN  IF resort /\ sorted.sentence_buckets[1] = << >>
             THEN [self |-> sorted, ret |-> None]
             ELSE LET loop == skip_known(sorted)
                  IN  IF loop.found
                      THEN [self |-> loop.self, ret |-> loop.ret]
                      ELSE get_next_sentence(loop.self)
    ELSE [self |-> self, ret |-> None]

\* The object at the call of line 137 if get_next_sentence, called on self,
\* gets there (reached is FALSE if it returns before).
retry(self) ==
    IF self.sentence_buckets[1] # << >>
    THEN LET resort == ~self.has_n1_counter \/ self.n1_counter <= 0
             sorted == IF resort THEN clean_and_sort(self) ELSE self
         IN  IF resort /\ sorted.sentence_buckets[1] = << >>
             THEN [reached |-> FALSE, self |-> sorted]
             ELSE LET loop == skip_known(sorted)
                  IN  [reached |-> ~loop.found, self |-> loop.self]
    ELSE [reached |-> FALSE, self |-> self]

\* The number of times a get_next_sentence call on self gets to line 137.
RECURSIVE retries(_)
retries(self) ==
    IF retry(self).reached THEN 1 + retries(retry(self).self) ELSE 0

\* Variant of learn_missing with a defaulting lookup: the call on a sentence
\* without a record returns as if nothing were to be learned.
learn_missing_silent(self, sentence) ==
    [ self |-> self, err |-> "none",
      new_words |-> {}, segmented_words |-> << >> ]

\* Line 146 on a sentence without a record: the dict lookup raises KeyError
\* before anything is written.
learn_missing(self, sentence) ==
    [ self |-> self, err |-> "KeyError",
      new_words |-> {}, segmented_words |-> << >> ]

\* Variant of learn_known_words that assigns instead of updating.
learn_known_words_assign(self, new_words) ==
    [self EXCEPT
       !.n2_sentences_used = IF Cardinality(new_words) = 2 THEN @ + 1 ELSE @,
       !.known_words = new_words]

\* Lines 150-157: count an n+2 sentence, add the new words to known_words.
learn_known_words(self, new_words) ==
    [self EXCEPT
       !.n2_sentences_used = IF Cardinality(new_words) = 2 THEN @ + 1 ELSE @,
       !.known_words = @ \cup new_words]

\* Variant of remove_learned that pops the end of the count-1 list.
remove_learned_pop_last(self, sentence, count) ==
    [self EXCEPT
       !.sentence_buckets =
           IF count = 1
           THEN [@ EXCEPT ![1] = SubSeq(@, 1, Len(@) - 1)]
           ELSE [@ EXCEPT ![count] = @ \ {sentence}],
       !.sentence_data = DictDel(@, sentence)]

\* Lines 161-166: drop the learned sentence from its bucket (the front of
\* the count-1 list, whichever sentence is there) and delete its record.
remove_learned(self, sentence, count) ==
    [self EXCEPT
       !.sentence_buckets =
           IF count = 1
           THEN [@ EXCEPT ![1] = Tail(@)]
           ELSE [@ EXCEPT ![count] = @ \ {sentence}],
       !.sentence_data = DictDel(@, sentence)]

\* Variant of learn_return for a record that is still stored while
\* _update_buckets runs: line 90 then empties the returned set.
learn_return_aliased(sentence_info) ==
    [ new_words       |-> sentence_info.unknown \ sentence_info.unknown,
      segmented_words |-> sentence_info.words ]

\* Line 174: the pair returned.  new_words is the set object of the deleted
\* record, which _update_buckets no longer reaches.
learn_return(sentence_info) ==
    [ new_words       |-> sentence_info.unknown,
      segmented_words |-> sentence_info.words ]

\* SentenceOrganizer.learn_sentence: the object afterwards, the exception
\* raised ("none" when the call returns) and the pair returned.
learn_sentence(self, sentence, order) ==
    IF sentence \notin DOMAIN self.sentence_data
    THEN learn_missing(self, sentence)
    ELSE
      LET sentence_info == self.sentence_data[sentence]
          new_words     == sentence_info.unknown
          count         == Cardinality(new_words)
          learnt        == learn_known_words(self, new_words)
      IN  IF count = 1 /\ self.sentence_buckets[1] = << >>
          THEN \* list.pop(0) of an empty list, line 163
               [ self |-> learnt, err |-> "IndexError",
                 new_words |-> {}, segmented_words |-> << >> ]
          ELSE
            LET removed  == remove_learned(learnt, sentence, count)
                returned == learn_return(sentence_info)
            IN  [ self |-> _update_buckets(removed, new_words, order),
                  err  |-> "none",
                  new_words       |-> returned.new_words,
                  segmented_words |-> returned.segmented_words ]

\* generate_sequence (src/selection.py:37-58) run to its end from self, with
\* one fixed order for every iteration over a set: the sentences it appends
\* to its output, in order.
RECURSIVE generate_sequence(_, _)
generate_sequence(self, sequence) ==
    LET next == get_next_sentence(self)
    IN  IF next.ret = None THEN sequence
        ELSE LET new_words == next.self.sentence_data[next.ret].unknown
                 order == CHOOSE o \in
                     Orders(sentences_to_check(next.self, new_words)) : TRUE
                 learnt == learn_sentence(next.self, next.ret, order)
             IN  generate_sequence(learnt.self, Append(sequence, next.ret))

\* print_summary (src/selection.py:73): the sum of the sizes of all buckets.
RECURSIVE bucket_sizes(_, _)
bucket_sizes(buckets, n) ==
    IF n = 0 THEN 0
    ELSE bucket_sizes(buckets, n - 1) +
         (IF n = 1 THEN Len(buckets[1]) ELSE Cardinality(buckets[n]))

remaining(self) == bucket_sizes(self.sentence_buckets, MaxSentLen)

\* get_next_sentence called on self reaches the cleanup of lines 114-127
\* with a non-empty list: at once, or in the recursive call of line 137.
sorts(self) ==
    /\ self.sentence_buckets[1] # << >>
    /\ \/ ~self.has_n1_counter
       \/ self.n1_counter <= 0
       \/ LET loop == skip_known(self)
          IN  ~loop.found /\ loop.self.sentence_buckets[1] # << >>

(***************************************************************************)
(* The full-rescan SentenceOrganizer of src/jieba_segmenter.py.  Its        *)
(* sentence_data is a dict read in insertion order: a sequence of entries;  *)
(* its buckets are lists.                                                   *)
(***************************************************************************)
Minimum(S) == CHOOSE x \in S : \A y \in S : x <= y

rescan_keys(self) ==
    { self.sentence_data[i].sentence : i \in 1..Len(self.sentence_data) }

\* Line 41 and lines 60-63: min(..., default=float('inf')).
rescan_rank(ranks, unknown) ==
    IF unknown = {} THEN Inf
    ELSE Minimum({ rank_of(ranks, w) : w \in unknown })

\* Lines 30-43: _process_sentence.  Assigning an existing key of the dict
\* keeps the key's position.
rescan_process(self, ranks, sentence) ==
    LET words   == segment(sentence)
        unknown == { w \in Range(words) : w \notin self.known_words }
        entry   == [ sentence |-> sentence, words |-> words,
                     unknown |-> unknown,
                     max_rank |-> rescan_rank(ranks, unknown) ]
    IN  IF unknown = {} THEN self
        ELSE [self EXCEPT
                !.sentence_data =
                    IF sentence \in rescan_keys(self)
                    THEN [i \in 1..Len(@) |->
                            IF @[i].sentence = sentence THEN entry ELSE @[i]]
                    ELSE Append(@, entry),
                !.sentence_buckets[Cardinality(unknown)] =
                    Append(@, sentence)]

RECURSIVE rescan_process_all(_, _, _)
rescan_process_all(self, ranks, corpus) ==
    IF corpus = << >> THEN self
    ELSE rescan_process_all(rescan_process(self, ranks, Head(corpus)),
                            ranks, Tail(corpus))

\* Lines 18-28: __init__.
rescan_init(corpus, ranks, initial) ==
    rescan_process_all(
        [ known_words      |-> PUNCTUATION \cup initial,
          sentence_buckets |-> [n \in 1..MaxSentLen |-> << >>],
          sentence_data    |-> << >>,
          err              |-> "none" ],
        ranks, corpus)

\* Lines 45-66: _update_buckets, over every record, in the order of the
\* dict; the buckets are built anew.
RECURSIVE rescan_update(_, _, _, _)
rescan_update(self, ranks, new_words, todo) ==
    IF todo = << >> THEN self
    ELSE LET unknown == Head(todo).unknown \ new_words
             entry   == [Head(todo) EXCEPT
                            !.unknown = unknown,
                            !.max_rank = rescan_rank(ranks, unknown)]
         IN  rescan_update(
                 IF unknown = {} THEN self
                 ELSE [self EXCEPT
                         !.sentence_data = Append(@, entry),
                         !.sentence_buckets[Cardinality(unknown)] =
                             Append(@, entry.sentence)],
                 ranks, new_words, Tail(todo))

\* Lines 83-101: learn_sentence.  The lookup of line 86 raises KeyError for
\* a sentence without a record; an exception ends the run.
rescan_learn(self, ranks, sentence) ==
    IF self.err # "none" THEN self
    ELSE IF sentence \notin rescan_keys(self)
    THEN [self EXCEPT !.err = "KeyError"]
    ELSE LET other(e)  == e.sentence # sentence
             info      == CHOOSE e \in Range(self.sentence_data) : ~other(e)
             new_words == info.unknown
             rest      == SelectSeq(self.sentence_data, other)
         IN  rescan_update(
                 [ known_words      |-> self.known_words \cup new_words,
                   sentence_buckets |-> [n \in 1..MaxSentLen |-> << >>],
                   sentence_data    |-> << >>,
                   err              |-> "none" ],
                 ranks, new_words, rest)

\* min(bucket, key=...): the first entry of the list with the smallest key.
rescan_min(self, bucket) ==
    LET key(s) == (CHOOSE e \in Range(self.sentence_data) :
                       e.sentence = s).max_rank
        i == CHOOSE i \in 1..Len(bucket) :
                 /\ \A j \in 1..Len(bucket) : key(bucket[i]) <= key(bucket[j])
                 /\ \A j \in 1..(i - 1) : key(bucket[j]) # key(bucket[i])
    IN  bucket[i]

\* Lines 68-81: get_next_sentence.  min() of an empty bucket 2 raises
\* ValueError.
rescan_get_next(self) ==
    IF self.sentence_buckets[1] # << >>
    THEN [ret |-> rescan_min(self, self.sentence_buckets[1]), err |-> "none"]
    ELSE IF self.sentence_buckets[2] # << >>
    THEN [ret |-> rescan_min(self, self.sentence_buckets[2]), err |-> "none"]
    ELSE [ret |-> None, err |-> "ValueError"]

(***************************************************************************)
(* The state machine: construction, then any sequence of calls.  An        *)
(* exception leaves the caller (src/selection.py:37-58 has no handler), so *)
(* no call follows it.                                                     *)
(***************************************************************************)
Install(self) ==
    /\ known_words'       = self.known_words
    /\ sentence_buckets'  = self.sentence_buckets
    /\ sentence_data'     = self.sentence_data
    /\ word_to_sentences' = self.word_to_sentences
    /\ skipped_sentences' = self.skipped_sentences
    /\ n2_sentences_used' = self.n2_sentences_used
    /\ has_n1_counter'    = self.has_n1_counter
    /\ n1_counter'        = self.n1_counter

\* The state after SentenceOrganizer(corpus, ranks, initial).
ConstructedFrom(corpus, ranks, initial) ==
      LET self == __init__(corpus, ranks, initial)
      IN  /\ sentences = corpus
          /\ word_ranks = ranks
          /\ initial_words = initial
          /\ known_words       = self.known_words
          /\ sentence_buckets  = self.sentence_buckets
          /\ sentence_data     = self.sentence_data
          /\ word_to_sentences = self.word_to_sentences
          /\ skipped_sentences = self.skipped_sentences
          /\ n2_sentences_used = self.n2_sentences_used
          /\ has_n1_counter    = self.has_n1_counter
          /\ n1_counter        = self.n1_counter
          /\ last = [ op |-> "init", arg |-> None, ret |-> None,
                      err |-> "none", new_words |-> {},
                      segmented_words |-> << >>, retries |-> 0 ]
          /\ driver = TRUE
          /\ sequence_data = << >>
          /\ batch = [size |-> 0, returns |-> 0]
          /\ rescan = rescan_init(corpus, ranks, initial)

Constructed(corpora) ==
    \E corpus \in corpora, ranks \in RankTables, initial \in InitialWordSets :
        ConstructedFrom(corpus, ranks, initial)

Init ==
    /\ Constructed(Corpora)
    /\ seg = NotSegmenting /\ twin = NoTwin
    /\ split = NoSplit /\ enhance = NoEnhance

\* A call of get_next_sentence.  generate_sequence calls it first and after
\* every learn_sentence, and stops calling once it has returned None.
GetNext ==
    /\ last.err = "none"
    /\ LET r == get_next_sentence(Self)
       IN  /\ Install(r.self)
           /\ last' = [ op |-> "get_next", arg |-> None, ret |-> r.ret,
                        err |-> "none", new_words |-> {},
                        segmented_words |-> << >>,
                        retries |-> retries(Self) ]
           /\ batch' = IF r.ret = None THEN batch
                       ELSE IF sorts(Self)
                       THEN [ size    |-> Len(r.self.sentence_buckets[1]),
                              returns |-> 1 ]
                       ELSE [batch EXCEPT !.returns = @ + 1]
    /\ driver' = (driver /\ last.op \in {"init", "learn"})
    /\ UNCHANGED << sentences, word_ranks, initial_words, sequence_data,
                    seg, twin, rescan, split, enhance >>

\* A call of learn_sentence(sentence).  generate_sequence calls it with the
\* sentence get_next_sentence has just returned.
Learn(sentence) ==
    /\ last.err = "none"
    /\ \E order \in Orders(
            IF sentence \in DOMAIN sentence_data
            THEN sentences_to_check(Self, sentence_data[sentence].unknown)
            ELSE {}) :
         LET r == learn_sentence(Self, sentence, order)
         IN  /\ Install(r.self)
             /\ last' = [ op |-> "learn", arg |-> sentence, ret |-> None,
                          err |-> r.err, new_words |-> r.new_words,
                          segmented_words |-> r.segmented_words,
                          retries |-> 0 ]
             /\ sequence_data' =
                    IF r.err = "none"
                    THEN Append(sequence_data,
                                [ Sentence  |-> sentence,
                                  New_Words |-> r.new_words ])
                    ELSE sequence_data
    /\ rescan' = rescan_learn(rescan, word_ranks, sentence)
    /\ driver' = (driver /\ last.op = "get_next" /\ last.ret = sentence)
    /\ UNCHANGED << sentences, word_ranks, initial_words, seg, twin, batch,
                    split, enhance >>

Next ==
    \/ GetNext
    \/ \E sentence \in Sentences : Learn(sentence)

Spec == Init /\ [][Next]_vars

\* The same calls on an organizer built from a corpus of PickSentences.
PickInit ==
    /\ Constructed(PickCorpora)
    /\ seg = NotSegmenting /\ twin = NoTwin
    /\ split = NoSplit /\ enhance = NoEnhance

PickNext ==
    \/ GetNext
    \/ \E sentence \in PickSentences : Learn(sentence)

PickSpec == PickInit /\ [][PickNext]_vars

\* generate_sequence of src/selection.py on a new organizer: the calls of
\* its loop, and nothing after the break.
DriverInit ==
    /\ Constructed(Corpora)
    /\ seg = NotSegmenting /\ twin = NoTwin
    /\ split = NoSplit /\ enhance = NoEnhance

\* Line 43.
DriverGetNext ==
    /\ last.op \in {"init", "learn"}
    /\ GetNext

\* Lines 44-47: no break, learn the sentence returned.
DriverLearn ==
    /\ last.op = "get_next"
    /\ last.ret # None
    /\ Learn(last.ret)

DriverNext ==
    \/ DriverGetNext
    \/ DriverLearn

\* The loop has a call to make: no exception has ended the run and
\* get_next_sentence has not returned None.
Running ==
    /\ last.err = "none"
    /\ \/ last.op \in {"init", "learn"}
       \/ last.op = "get_next" /\ last.ret # None

\* The loop makes the call it has to make: weak fairness of DriverNext, with
\* ENABLED <<DriverNext>>_vars written as the state predicate Running it is
\* equal to.
DriverSpec ==
    /\ DriverInit /\ [][DriverNext]_vars
    /\ ([]<>~Running) \/ ([]<><<DriverNext>>_vars)

\* main of src/jieba_segmenter.py on the full-rescan organizer: the calls of
\* its loop and the write after it.  MaxIterations stands for the 1000 of
\* line 119.
IncrementalOrganizer ==
    << sentences, word_ranks, initial_words, known_words, sentence_buckets,
       sentence_data, word_to_sentences, skipped_sentences,
       n2_sentences_used, has_n1_counter, n1_counter, driver, batch >>

RescanInit ==
    /\ Constructed(Corpora)
    /\ seg = NotSegmenting /\ twin = NoTwin
    /\ split = NoSplit /\ enhance = NoEnhance

\* The iterations of the for loop of line 119, range(1000) in the source.
MaxIterations == 2

\* Line 120.
RescanGetNext ==
    /\ last.err = "none"
    /\ last.op \in {"init", "learn"}
    /\ Len(sequence_data) < MaxIterations
    /\ LET r == rescan_get_next(rescan)
       IN  last' = [ op |-> "get_next", arg |-> None, ret |-> r.ret,
                     err |-> r.err, new_words |-> {},
                     segmented_words |-> << >>, retries |-> 0 ]
    /\ UNCHANGED << IncrementalOrganizer, rescan, sequence_data, seg, twin,
                    split, enhance >>

\* Lines 121-135: no break; learn the sentence and append it.
RescanLearn ==
    /\ last.err = "none"
    /\ last.op = "get_next"
    /\ last.ret # None
    /\ rescan' = rescan_learn(rescan, word_ranks, last.ret)
    /\ last' = [ op |-> "learn", arg |-> last.ret, ret |-> None,
                 err |-> "none", new_words |-> {},
                 segmented_words |-> << >>, retries |-> 0 ]
    /\ sequence_data' = Append(sequence_data,
                               [ Sentence |-> last.ret, New_Words |-> {} ])
    /\ UNCHANGED << IncrementalOrganizer, seg, twin, split, enhance >>

\* Lines 137-140: after the break or after the last iteration, the sequence
\* is written.
RescanWrite ==
    /\ last.err = "none"
    /\ \/ last.op = "get_next" /\ last.ret = None
       \/ last.op \in {"init", "learn"}
            /\ Len(sequence_data) >= MaxIterations
    /\ last' = [last EXCEPT !.op = "to_csv"]
    /\ UNCHANGED << IncrementalOrganizer, rescan, sequence_data, seg, twin,
                    split, enhance >>

RescanNext ==
    \/ RescanGetNext
    \/ RescanLearn
    \/ RescanWrite

RescanSpec == RescanInit /\ [][RescanNext]_vars

\* The same calls on an organizer built from a corpus of raw sentences.
RawInit ==
    /\ Constructed(RawCorpora)
    /\ seg = NotSegmenting /\ twin = NoTwin
    /\ split = NoSplit /\ enhance = NoEnhance

RawNext ==
    \/ GetNext
    \/ \E sentence \in RawSentences : Learn(sentence)

RawSpec == RawInit /\ [][RawNext]_vars

(***************************************************************************)
(* segment_sentence of src/word_segmenter.py, one loop iteration per step.  *)
(* A text and a word are sequences of characters; i counts from 0 as in    *)
(* the source, and the slice sentence[i:j] is SubSeq(sentence, i + 1, j).   *)
(***************************************************************************)
Min(a, b) == IF a < b THEN a ELSE b

\* Line 29: sentence[i:j].
candidate(sentence, i, j) == SubSeq(sentence, i + 1, j)

\* Lines 28-30: the ends j, from min(i + max_word_len, len(sentence)) down
\* to i + 1, at which a word of the list ends.
word_ends(s) ==
    { j \in (s.i + 1)..Min(s.i + s.max_word_len, Len(s.sentence)) :
        candidate(s.sentence, s.i, j) \in s.word_list }

\* Variant of take_word with the range of line 28 run upwards: the shortest
\* word found is taken.
take_word_shortest(s) ==
    LET j == Minimum(word_ends(s))
    IN  [s EXCEPT !.words = Append(@, candidate(s.sentence, s.i, j)),
                  !.i = j]

\* Lines 31-34: the longest word found is appended and i moves behind it.
take_word(s) ==
    LET j == Max(word_ends(s))
    IN  [s EXCEPT !.words = Append(@, candidate(s.sentence, s.i, j)),
                  !.i = j]

\* Variant of take_character with the append of line 42 inside the if of
\* line 38.
take_character_guarded(s) ==
    IF s.i + 1 < Len(s.sentence)
    THEN [s EXCEPT
            !.unknown_words = Append(@, candidate(s.sentence, s.i, s.i + 2)),
            !.word_list = @ \cup {candidate(s.sentence, s.i, s.i + 1)},
            !.words = Append(@, << s.sentence[s.i + 1] >>),
            !.i = @ + 1]
    ELSE [s EXCEPT !.i = @ + 1]

\* Lines 37-43: no word found; the bigram is noted and the character added
\* to the list unless it is the last one, and the character is taken.
take_character(s) ==
    LET noted ==
            IF s.i + 1 < Len(s.sentence)
            THEN [s EXCEPT
                    !.unknown_words =
                        Append(@, candidate(s.sentence, s.i, s.i + 2)),
                    !.word_list =
                        @ \cup {candidate(s.sentence, s.i, s.i + 1)}]
            ELSE s
    IN  [noted EXCEPT !.words = Append(@, << s.sentence[s.i + 1] >>),
                      !.i = @ + 1]

\* Lines 20-24: the call, with its arguments and fresh locals.
SegInit ==
    /\ ConstructedFrom(<< >>, EmptyDict, {})
    /\ twin = NoTwin
    /\ split = NoSplit /\ enhance = NoEnhance
    /\ \E sentence \in Texts, word_list \in SUBSET Dictionary,
          max_word_len \in 1..MaxWordLen :
         seg = [ pc |-> "loop", sentence |-> sentence,
                 word_list |-> word_list, max_word_len |-> max_word_len,
                 i |-> 0, words |-> << >>, unknown_words |-> << >> ]

Organizer == << sentences, word_ranks, initial_words, known_words,
                sentence_buckets, sentence_data, word_to_sentences,
                skipped_sentences, n2_sentences_used, has_n1_counter,
                n1_counter, last, driver, sequence_data, batch, rescan >>

\* An iteration of the while loop that finds a word (lines 25-34).
TakeWord ==
    /\ seg.pc = "loop"
    /\ seg.i < Len(seg.sentence)
    /\ word_ends(seg) # {}
    /\ seg' = take_word(seg)
    /\ UNCHANGED << Organizer, twin, split, enhance >>

\* An iteration of the while loop that finds none (lines 25-30, 37-43).
TakeCharacter ==
    /\ seg.pc = "loop"
    /\ seg.i < Len(seg.sentence)
    /\ word_ends(seg) = {}
    /\ seg' = take_character(seg)
    /\ UNCHANGED << Organizer, twin, split, enhance >>

\* The loop ends and the function returns (lines 25, 45).
Return ==
    /\ seg.pc = "loop"
    /\ ~(seg.i < Len(seg.sentence))
    /\ seg' = [seg EXCEPT !.pc = "done"]
    /\ UNCHANGED << Organizer, twin, split, enhance >>

SegNext == TakeWord \/ TakeCharacter \/ Return

\* The function runs on its own thread of control: a step that can be taken
\* is taken.
SegSpec == SegInit /\ [][SegNext]_vars /\ WF_vars(SegNext)

(***************************************************************************)
(* split_audio of src/prepare_vtt_data.py (the same code is in              *)
(* src/generate_audio.py): the tasks of the process pool are queued in the *)
(* order of submission, at most max_workers of them run at a time, and the *)
(* caller takes the results as they complete.                              *)
(***************************************************************************)
\* Line 75: the default of max_length.
max_length == 50

Invalid == { "?" }

Whitespace == { " " }

\* Line 89: re.sub(r'\s+', '_', ...), every run of whitespace becomes one
\* underscore.
RECURSIVE underscored(_, _)
underscored(text, in_run) ==
    IF text = << >> THEN << >>
    ELSE IF Head(text) \in Whitespace
    THEN (IF in_run THEN << >> ELSE << "_" >>) \o underscored(Tail(text), TRUE)
    ELSE << Head(text) >> \o underscored(Tail(text), FALSE)

\* Lines 75-93: sanitize_filename.
sanitize_filename(text) ==
    LET valid(c)  == c \notin Invalid
        sanitized == underscored(SelectSeq(text, valid), FALSE)
    IN  IF Len(sanitized) > max_length
        THEN SubSeq(sanitized, 1, max_length)
        ELSE sanitized

\* Lines 108-109: f"{idx:04d}_{safe_text}.mp3", as the pair of its parts.
output_filename(idx, text) == << idx, sanitize_filename(text) >>

\* Lines 96-138: process_audio_segment; success is whether ffmpeg ran
\* without an exception.
process_audio_segment(idx, text, success) ==
    [ idx |-> idx, filename |-> output_filename(idx, text),
      success |-> success ]

\* Variant of collect that puts the filename behind those it has already.
collect_appended(s, result) ==
    [s EXCEPT !.output_files[s.completed + 1] = result.filename,
              !.completed = @ + 1,
              !.order = Append(@, result.idx),
              !.errors = IF result.success THEN @ ELSE @ \cup {result.idx}]

\* Lines 181-190: the body of the loop over as_completed; errors are the
\* segments an error was printed for.
collect(s, result) ==
    [s EXCEPT !.output_files[result.idx] = result.filename,
              !.completed = @ + 1,
              !.order = Append(@, result.idx),
              !.errors = IF result.success THEN @ ELSE @ \cup {result.idx}]

\* Lines 161-178: the call; every task is submitted.  '' is the empty
\* sequence.  order is the order the results were taken in.
SplitInit ==
    /\ ConstructedFrom(<< >>, EmptyDict, {})
    /\ seg = NotSegmenting /\ twin = NoTwin /\ enhance = NoEnhance
    /\ \E n \in 0..MaxSegments, max_workers \in 1..MaxWorkers :
         \E segments \in [1..n -> SegmentTexts] :
           split = [ pc |-> "pool", segments |-> segments,
                     max_workers |-> max_workers,
                     queued |-> [i \in 1..n |-> i], running |-> {},
                     finished |-> {},
                     output_files |-> [i \in 1..n |-> << >>],
                     completed |-> 0, order |-> << >>, errors |-> {} ]

\* A free worker process takes the task submitted first.
SplitStart ==
    /\ split.pc = "pool"
    /\ split.queued # << >>
    /\ Cardinality(split.running) < split.max_workers
    /\ split' = [split EXCEPT !.queued = Tail(@),
                              !.running = @ \cup {Head(split.queued)}]
    /\ UNCHANGED << Organizer, seg, twin, enhance >>

\* A worker process returns from process_audio_segment.
SplitFinish ==
    /\ split.pc = "pool"
    /\ \E idx \in split.running, success \in BOOLEAN :
         split' = [split EXCEPT
                     !.running = @ \ {idx},
                     !.finished = @ \cup
                         {process_audio_segment(idx, split.segments[idx],
                                                success)}]
    /\ UNCHANGED << Organizer, seg, twin, enhance >>

\* Line 180: as_completed yields a future that has completed.
SplitCollect ==
    /\ split.pc = "pool"
    /\ \E result \in split.finished :
         split' = [collect(split, result) EXCEPT !.finished = @ \ {result}]
    /\ UNCHANGED << Organizer, seg, twin, enhance >>

\* Line 192: every future has been yielded.
SplitReturn ==
    /\ split.pc = "pool"
    /\ split.completed = Len(split.segments)
    /\ split' = [split EXCEPT !.pc = "done"]
    /\ UNCHANGED << Organizer, seg, twin, enhance >>

SplitNext == SplitStart \/ SplitFinish \/ SplitCollect \/ SplitReturn

SplitSpec == SplitInit /\ [][SplitNext]_vars

(***************************************************************************)
(* enhance_csv_with_segmentation of src/enhance_csv.py (src/main.py has    *)
(* the same steps around another worker): called, and called once more on  *)
(* the same input.  The rows of a CSV file are those under its header,     *)
(* each row the fields as written; rows are indexed from 1 here, from 0 by *)
(* pandas.  A frame that is None has loaded FALSE.                         *)
(***************************************************************************)
NaN == "NaN"

NoFrame == [loaded |-> FALSE, rows |-> << >>]

Frame(rows) == [loaded |-> TRUE, rows |-> rows]

\* pd.read_csv on a field: the empty field is read as NaN.
read_field(field) == IF field = "" THEN NaN ELSE field

\* to_csv on a value: NaN is written as the empty field.
write_value(value) == IF value = NaN THEN "" ELSE value

\* pd.read_csv on a file of rows.
read_csv(rows) ==
    [i \in 1..Len(rows) |->
        [c \in DOMAIN rows[i] |-> read_field(rows[i][c])]]

\* to_csv on a frame.
to_csv(frame) ==
    [i \in 1..Len(frame) |->
        [c \in DOMAIN frame[i] |-> write_value(frame[i][c])]]

\* seg.cut(sentence) joined with ', ': the words of that sentence.
cut(sentence) == "cut " \o sentence

\* Lines 11-25: process_sentence; raised is whether seg.cut raised.
process_sentence(idx, sentence, raised) ==
    IF raised
    THEN [ idx |-> idx, translation |-> "", segmented_words |-> "",
           success |-> FALSE ]
    ELSE [ idx |-> idx, translation |-> "",
           segmented_words |-> cut(sentence), success |-> TRUE ]

\* Variant of load_and_filter_sentences without the filter of line 36.
load_and_filter_sentences_all(input, output) ==
    LET df == [i \in 1..Len(input) |->
                 [idx |-> i, Sentence |-> read_field(input[i])]]
    IN  [ df |-> df,
          existing_df |-> IF output.exists
                          THEN Frame(read_csv(output.rows)) ELSE NoFrame ]

\* Lines 28-39: load_and_filter_sentences; the frame keeps the index of the
\* rows it keeps.  isin takes NaN to be in a set that holds NaN.
load_and_filter_sentences(input, output) ==
    LET df == [i \in 1..Len(input) |->
                 [idx |-> i, Sentence |-> read_field(input[i])]]
    IN  IF ~output.exists
        THEN [ df |-> df, existing_df |-> NoFrame ]
        ELSE LET existing_df == read_csv(output.rows)
                 already_processed ==
                     { existing_df[i].Sentence : i \in 1..Len(existing_df) }
                 new(row) == row.Sentence \notin already_processed
             IN  [ df |-> SelectSeq(df, new),
                   existing_df |-> Frame(existing_df) ]

\* Lines 88-90 and 64-73: the new columns from results, then the file:
\* appended to if there was one, created if not.
save_enhanced_csv(df, existing_df, results, output) ==
    LET enhanced == [i \in 1..Len(df) |->
                       [ Sentence        |-> df[i].Sentence,
                         translation     |-> results[df[i].idx].translation,
                         segmented_words |->
                             results[df[i].idx].segmented_words ]]
    IN  IF existing_df.loaded
        THEN File(output.rows \o to_csv(enhanced))
        ELSE File(to_csv(enhanced))

\* A row the output file may hold from an earlier run.
EarlierRows ==
    { [ Sentence |-> s, translation |-> "", segmented_words |-> w ] :
        s \in SentenceFields, w \in {"", "cut x", "cut y"} }

\* Before the first call: an input file, and no output file or one of an
\* earlier run.  calls is the number of calls so far, processed the
\* sentences each call has handed to a worker, before the output file as
\* each call found it.
EnhanceInit ==
    /\ ConstructedFrom(<< >>, EmptyDict, {})
    /\ seg = NotSegmenting /\ twin = NoTwin /\ split = NoSplit
    /\ \E n \in 0..MaxRows, max_workers \in 1..MaxWorkers :
         \E input \in [1..n -> SentenceFields],
            output \in {NoFile} \cup { File(<< row >>) : row \in EarlierRows } :
           enhance = [ pc |-> "idle", input |-> input, output |-> output,
                       max_workers |-> max_workers, calls |-> 0,
                       df |-> << >>, existing_df |-> NoFrame,
                       queued |-> << >>, running |-> {}, finished |-> {},
                       results |-> EmptyDict,
                       processed |-> << >>, before |-> << >> ]

\* Lines 76-83: the call loads and filters; with nothing new it returns.
EnhanceCall ==
    /\ enhance.pc \in {"idle", "returned"}
    /\ enhance.calls < 2
    /\ LET loaded == load_and_filter_sentences(enhance.input, enhance.output)
       IN  enhance' = [enhance EXCEPT
              !.pc = IF Len(loaded.df) = 0 THEN "returned" ELSE "pool",
              !.calls = @ + 1,
              !.df = loaded.df,
              !.existing_df = loaded.existing_df,
              !.queued = [i \in 1..Len(loaded.df) |-> loaded.df[i].idx],
              !.running = {}, !.finished = {}, !.results = EmptyDict,
              !.processed = Append(@, { loaded.df[i].Sentence :
                                          i \in 1..Len(loaded.df) }),
              !.before = Append(@, enhance.output)]
    /\ UNCHANGED << Organizer, seg, twin, split >>

\* Lines 46-50: a free worker thread takes the task submitted first.
EnhanceStart ==
    /\ enhance.pc = "pool"
    /\ enhance.queued # << >>
    /\ Cardinality(enhance.running) < enhance.max_workers
    /\ enhance' = [enhance EXCEPT !.queued = Tail(@),
                                  !.running = @ \cup {Head(enhance.queued)}]
    /\ UNCHANGED << Organizer, seg, twin, split >>

\* A worker thread returns from process_sentence; seg.cut raises on NaN,
\* and may raise on a text.
EnhanceFinish ==
    /\ enhance.pc = "pool"
    /\ \E idx \in enhance.running, raised \in BOOLEAN :
         LET sentence == read_field(enhance.input[idx])
         IN  /\ (sentence = NaN) => raised
             /\ enhance' = [enhance EXCEPT
                   !.running = @ \ {idx},
                   !.finished = @ \cup
                       {process_sentence(idx, sentence, raised)}]
    /\ UNCHANGED << Organizer, seg, twin, split >>

\* Lines 53-55: as_completed yields a future that has completed.
EnhanceCollect ==
    /\ enhance.pc = "pool"
    /\ \E result \in enhance.finished :
         enhance' = [enhance EXCEPT
            !.finished = @ \ {result},
            !.results = [i \in DOMAIN @ \cup {result.idx} |->
                            IF i = result.idx THEN result ELSE @[i]]]
    /\ UNCHANGED << Organizer, seg, twin, split >>

\* Lines 61, 88-92: every future has been yielded; the file is written.
EnhanceSave ==
    /\ enhance.pc = "pool"
    /\ enhance.queued = << >> /\ enhance.running = {}
    /\ enhance.finished = {}
    /\ enhance' = [enhance EXCEPT
          !.pc = "returned",
          !.output = save_enhanced_csv(enhance.df, enhance.existing_df,
                                       enhance.results, enhance.output)]
    /\ UNCHANGED << Organizer, seg, twin, split >>

EnhanceNext ==
    \/ EnhanceCall
    \/ EnhanceStart
    \/ EnhanceFinish
    \/ EnhanceCollect
    \/ EnhanceSave

EnhanceSpec == EnhanceInit /\ [][EnhanceNext]_vars

(***************************************************************************)
(* Two organizers built in one process from the same arguments.  The sets  *)
(* a second reference could reach are objects of a heap: the module-level  *)
(* PUNCTUATION and the known_words of each organizer.  The other fields    *)
(* are built from literals in __init__ (lines 23-28) and are held by value. *)
(***************************************************************************)
Engines == {1, 2}

\* The object PUNCTUATION of the module (line 7) refers to.
ModuleSet == << "PUNCTUATION", 0 >>

\* Variant of set_copy that hands back the object it was given.
set_copy_aliased(object, fresh) == object

\* set.copy() (line 19): the object the call returns, a fresh one.
set_copy(object, fresh) == fresh

\* Lines 19-38 for organizer e on the heap: known_words is a copy of
\* PUNCTUATION, updated with initial_words; the sentences are processed.
construct(heap, e, corpus, ranks, initial) ==
    LET ref    == set_copy(ModuleSet, << "known_words", e >>)
        copied == [a \in DOMAIN heap \cup {ref} |->
                     IF a = ref THEN heap[ModuleSet] ELSE heap[a]]
        filled == [copied EXCEPT ![ref] = @ \cup initial]
        fields == process_all(
                      [__init__(<< >>, ranks, {}) EXCEPT
                          !.known_words = filled[ref]],
                      ranks, corpus)
    IN  [ heap |-> filled, engine |-> [fields EXCEPT !.known_words = ref] ]

\* self of organizer e, with the set its known_words refers to.
engine_self(e) ==
    [twin.engines[e] EXCEPT !.known_words = twin.heap[@]]

\* The organizer after a method: its fields, and the set known_words refers
\* to as the method left it (line 156 updates it in place).
TwinInstall(e, op, self, err) ==
    LET ref == twin.engines[e].known_words
    IN  twin' = [twin EXCEPT
                   !.op = op,
                   !.called = e,
                   !.err = err,
                   !.heap = [@ EXCEPT ![ref] = self.known_words],
                   !.engines = [@ EXCEPT ![e] =
                                   [self EXCEPT !.known_words = ref]]]

TwinInit ==
    /\ ConstructedFrom(<< >>, EmptyDict, {})
    /\ seg = NotSegmenting
    /\ split = NoSplit /\ enhance = NoEnhance
    /\ \E corpus \in TwinCorpora, ranks \in RankTables,
          initial \in InitialWordSets :
         LET module == [a \in {ModuleSet} |-> PUNCTUATION]
             first  == construct(module, 1, corpus, ranks, initial)
             second == construct(first.heap, 2, corpus, ranks, initial)
         IN  twin = [ op |-> "init", called |-> 0, err |-> "none",
                      word_ranks |-> ranks,
                      heap |-> second.heap,
                      engines |-> [e \in Engines |->
                                     IF e = 1 THEN first.engine
                                     ELSE second.engine] ]

\* get_next_sentence on organizer e.
TwinGetNext(e) ==
    /\ twin.err = "none"
    /\ LET r == get_next_sentence(engine_self(e))
       IN  TwinInstall(e, "get_next", r.self, "none")
    /\ UNCHANGED << Organizer, seg, split, enhance >>

\* learn_sentence(sentence) on organizer e.
TwinLearn(e, sentence) ==
    /\ twin.err = "none"
    /\ LET self == engine_self(e)
       IN  \E order \in Orders(
                IF sentence \in DOMAIN self.sentence_data
                THEN sentences_to_check(self,
                                        self.sentence_data[sentence].unknown)
                ELSE {}) :
             LET r == learn_sentence(self, sentence, order)
             IN  TwinInstall(e, "learn", r.self, r.err)
    /\ UNCHANGED << Organizer, seg, split, enhance >>

TwinNext ==
    \E e \in Engines :
        \/ TwinGetNext(e)
        \/ \E sentence \in Sentences : TwinLearn(e, sentence)

TwinSpec == TwinInit /\ [][TwinNext]_vars

(***************************************************************************)
(* Properties.                                                             *)
(***************************************************************************)
Live == DOMAIN sentence_data

UnknownCount(s) == Cardinality(sentence_data[s].unknown)

\* C1 (frontier validity): in every reachable state, a sentence that
\* get_next_sentence has just returned has a record, and the unknown set of
\* that record holds exactly one word.
FrontierValidity ==
    (last.op = "get_next" /\ last.ret # None) =>
        /\ last.ret \in Live
        /\ UnknownCount(last.ret) = 1

\* get_next_sentence returned a sentence after a learn_sentence call, while
\* a sentence with two or more unknown words is waiting.
FrontierValidityWitness ==
    /\ last.op = "get_next"
    /\ last.ret # None
    /\ sequence_data # << >>
    /\ \E t \in Live : UnknownCount(t) >= 2

\* C2 (i+1 over a run): while the calls are those of generate_sequence
\* (get_next_sentence, then learn_sentence of the sentence returned), every
\* learn_sentence call returns, returns exactly one word, that word was not
\* in known_words before the call, and no earlier call of the run returned it.
IPlusOneRun ==
    [][ (driver' /\ last'.op = "learn") =>
          /\ last'.err = "none"
          /\ Cardinality(last'.new_words) = 1
          /\ last'.new_words \cap known_words = {}
          /\ \A i \in 1..Len(sequence_data) :
                sequence_data[i].New_Words \cap last'.new_words = {} ]_vars

\* A run of generate_sequence that has learned two sentences.
IPlusOneRunWitness ==
    /\ driver
    /\ last.op = "learn"
    /\ Len(sequence_data) >= 2

InBucket(s, n) ==
    IF n = 1 THEN s \in Range(sentence_buckets[1])
    ELSE s \in sentence_buckets[n]

\* C3 (exhaustion correctness): after any sequence of get_next_sentence
\* calls and learn_sentence calls on sentences that have a record,
\* get_next_sentence returns None exactly when no record has an unknown set
\* of one word.
ExhaustionCorrectness ==
    (last.op = "get_next") =>
        ((last.ret = None) <=> ~ \E s \in Live : UnknownCount(s) = 1)

\* C4 (bucket invariant): after the construction and after every call that
\* returned, every sentence with a record is in the bucket whose key is the
\* size of its unknown set and in no other bucket.
BucketInvariant ==
    (last.err = "none") =>
        \A s \in Live :
            /\ InBucket(s, UnknownCount(s))
            /\ \A n \in 1..MaxSentLen : n # UnknownCount(s) => ~InBucket(s, n)

\* The same two statements for the calls of generate_sequence alone.
DriverExhaustion == driver => ExhaustionCorrectness

DriverBucketInvariant == driver => BucketInvariant

\* The step is a learn_sentence call on a sentence that has a record.
LearnLiveStep == last'.op = "learn" /\ last'.arg \in Live

\* The step is a learn_sentence call that returned.
LearnReturnStep == LearnLiveStep /\ last'.err = "none"

\* C5 (monotonicity): no call removes a word from known_words; a
\* learn_sentence call adds the unknown words of the learned sentence and
\* nothing else, and every other call leaves known_words as it is.
Monotonicity ==
    [][ /\ known_words \subseteq known_words'
        /\ Cardinality(known_words) <= Cardinality(known_words')
        /\ IF LearnLiveStep
           THEN known_words' =
                    known_words \cup sentence_data[last'.arg].unknown
           ELSE known_words' = known_words ]_vars

\* A learn_sentence call has added two words to a known_words that already
\* held learned words.
MonotonicityWitness ==
    /\ last.op = "learn"
    /\ last.err = "none"
    /\ Cardinality(last.new_words) = 2
    /\ Len(sequence_data) >= 2

\* C6 (InvalidSelection): learn_sentence on a sentence without a record
\* raises an error, and known_words, the records, the buckets, the reverse
\* index, the skip counter and the batch counter are what they were.
InvalidSelection ==
    [][ (last'.op = "learn" /\ last'.arg \notin Live) =>
          /\ last'.err # "none"
          /\ UNCHANGED << known_words, sentence_data, sentence_buckets,
                          word_to_sentences, skipped_sentences,
                          has_n1_counter, n1_counter >> ]_vars

\* learn_sentence has been called a second time on a committed sentence
\* while other sentences still have records.
InvalidSelectionWitness ==
    /\ last.op = "learn"
    /\ last.err = "KeyError"
    /\ \E i \in 1..Len(sequence_data) : sequence_data[i].Sentence = last.arg
    /\ Live # {}

\* C7 (reverse-index shrinkage): a word that a returned learn_sentence call
\* made known has no entry in word_to_sentences when that call returns, nor
\* after any later call.
ReverseIndexShrinkage ==
    \A i \in 1..Len(sequence_data) :
        \A w \in sequence_data[i].New_Words :
            w \notin DOMAIN word_to_sentences

\* Calls were made after a word was learned, and the reverse index still
\* holds entries of other words.
ReverseIndexShrinkageWitness ==
    /\ sequence_data # << >>
    /\ last.op = "get_next"
    /\ last.ret # None
    /\ DOMAIN word_to_sentences # {}

AB == <<"A", "B">>

AC == <<"A", "C">>

BC == <<"B", "C">>

\* The corpus AB, AC, BC with ranks A=1, B=2, C=3 and A known.
Scenario ==
    /\ sentences = << AB, AC, BC >>
    /\ initial_words = {"A"}
    /\ DOMAIN word_ranks = Words
    /\ word_ranks["C"] = 3

\* C8 (propagation): a learn_sentence call that returns removes the learned
\* words from the unknown set of every other sentence with a record; a
\* sentence whose unknown count thereby falls to 1 is in the count-1 list
\* and has a record afterwards; a sentence whose count falls to 0 loses its
\* record and is counted in skipped_sentences.  In the scenario,
\* get_next_sentence first returns AB or AC, and after learn_sentence(AB)
\* the unknown set of BC is {C} and get_next_sentence returns BC or AC.
Propagation ==
    [][ /\ LearnReturnStep =>
             LET s      == last'.arg
                 learnt == sentence_data[s].unknown
                 rest(t) == sentence_data[t].unknown \ learnt
                 others == Live \ {s}
             IN  /\ \A t \in others :
                        IF rest(t) = {}
                        THEN t \notin DOMAIN sentence_data'
                        ELSE /\ t \in DOMAIN sentence_data'
                             /\ sentence_data'[t].unknown = rest(t)
                             /\ (Cardinality(rest(t)) = 1 /\ UnknownCount(t) > 1)
                                    => t \in Range(sentence_buckets'[1])
                 /\ skipped_sentences' = skipped_sentences
                        + Cardinality({ t \in others : rest(t) = {} })
        /\ (Scenario /\ last'.op = "get_next" /\ sequence_data = << >>)
               => last'.ret \in {AB, AC}
        /\ (Scenario /\ last'.op = "learn" /\ last'.arg = AB
                     /\ sequence_data = << >>)
               => /\ BC \in DOMAIN sentence_data'
                  /\ sentence_data'[BC].unknown = {"C"}
        /\ (Scenario /\ last'.op = "get_next"
                     /\ sequence_data = << [Sentence |-> AB,
                                            New_Words |-> {"B"}] >>)
               => last'.ret \in {BC, AC} ]_vars

\* get_next_sentence has returned a sentence whose unknown count was two or
\* more at construction and fell to 1 when learn_sentence propagated a word.
PropagationWitness ==
    /\ driver
    /\ last.op = "get_next"
    /\ last.ret # None
    /\ Cardinality(Range(last.ret) \ initial_words) >= 2
    /\ sequence_data # << >>
    /\ skipped_sentences > 0

\* C9 (return value): learn_sentence returns the unknown set the sentence
\* had before the call and its token sequence; the set is exactly what the
\* call added to known_words, propagation notwithstanding.
ReturnValue ==
    [][ LearnReturnStep =>
          /\ last'.new_words = sentence_data[last'.arg].unknown
          /\ last'.segmented_words = sentence_data[last'.arg].words
          /\ last'.segmented_words = segment(last'.arg)
          /\ last'.new_words = known_words' \ known_words ]_vars

\* A call returned two words while its propagation shrank the unknown set
\* of another sentence, which keeps its record.
ReturnValueWitness ==
    /\ last.op = "learn"
    /\ last.err = "none"
    /\ Cardinality(last.new_words) = 2
    /\ \E t \in Live : Range(sentence_data[t].words) \cap last.new_words # {}

\* The sentences of the output so far, in order.
OutputSentences == [i \in 1..Len(sequence_data) |-> sequence_data[i].Sentence]

IsPrefix(s, t) == Len(s) <= Len(t) /\ s = SubSeq(t, 1, Len(s))

\* C11 (deterministic order with ties): for given inputs the loop of
\* generate_sequence outputs the same sequence of sentences on every run,
\* whatever the order in which _update_buckets visits the affected
\* sentences: the output of every run is a prefix of the output of the run
\* that visits them in one fixed order.
DeterministicOrder ==
    driver =>
        IsPrefix(OutputSentences,
                 generate_sequence(
                     __init__(sentences, word_ranks, initial_words), << >>))

\* The sentence has an unknown word the rank table lacks.
HasUnrankedUnknown(s) ==
    \E w \in sentence_data[s].unknown : w \notin DOMAIN word_ranks

\* The words of a corpus sentence the construction found unknown.
InitialUnknown(s) == Range(segment(s)) \ (PUNCTUATION \cup initial_words)

\* Every sentence with an unranked unknown word got its record, bucket and
\* reverse-index entries at construction, and a record with an unranked
\* unknown word carries a priority above every rank of the table.
MissingRankIndexed ==
    /\ \A w \in DOMAIN word_ranks : word_ranks[w] < Inf
    /\ last.op = "init" =>
          \A i \in 1..Len(sentences) :
             LET s == sentences[i]
             IN  (InitialUnknown(s) \ DOMAIN word_ranks # {}) =>
                    /\ s \in Live
                    /\ sentence_data[s].unknown = InitialUnknown(s)
                    /\ InBucket(s, UnknownCount(s))
                    /\ \A w \in InitialUnknown(s) :
                          /\ w \in DOMAIN word_to_sentences
                          /\ s \in word_to_sentences[w]
    /\ \A s \in Live : HasUnrankedUnknown(s) => sentence_data[s].max_rank = Inf

\* get_next_sentence, called in this state, sorts the count-1 list: at once
\* (line 114), or in the recursive call of line 137.
SortRuns == sorts(Self)

\* After the step no entry of the count-1 list whose priority is not a real
\* rank stands before an entry whose priority is one.
MissingRankSorted ==
    (last'.op = "get_next" /\ SortRuns) =>
        LET bucket == sentence_buckets'[1]
        IN  \A i, j \in 1..Len(bucket) :
               (i < j /\ bucket[i] \in DOMAIN sentence_data'
                      /\ bucket[j] \in DOMAIN sentence_data') =>
                  ~ /\ sentence_data'[bucket[i]].max_rank = Inf
                    /\ sentence_data'[bucket[j]].max_rank < Inf

\* C13 (missing frequency rank): a word absent from the rank table raises
\* nothing; a sentence whose unknown words include it is indexed, its
\* priority is worse than every real rank, and after a sort of the count-1
\* list it stands after every frontier sentence whose priority is a real
\* rank.
MissingRank == []MissingRankIndexed /\ [][MissingRankSorted]_vars

\* The first get_next_sentence call has sorted the count-1 list, and moved a
\* frontier sentence with an unranked unknown word behind one with a real
\* rank that came later in the corpus.
MissingRankWitness ==
    /\ last.op = "get_next"
    /\ sequence_data = << >>
    /\ \E i, j \in 1..Len(sentence_buckets[1]) :
          LET s == sentence_buckets[1][i]
              t == sentence_buckets[1][j]
          IN  /\ i < j
              /\ s \in Live /\ t \in Live
              /\ sentence_data[s].max_rank < Inf
              /\ HasUnrankedUnknown(t)
              /\ \E m, n \in 1..Len(sentences) :
                    m < n /\ sentences[m] = t /\ sentences[n] = s
                          /\ \A k \in 1..(n - 1) : sentences[k] # s

\* C17 (end-of-run report): when get_next_sentence returns None at the end
\* of a run of generate_sequence, the count print_summary reports (the sum
\* of the sizes of all buckets) is the number of sentences with a record,
\* each of them has two or more unknown words, and the count-1 list is
\* empty.
EndOfRunReport ==
    (driver /\ last.op = "get_next" /\ last.ret = None) =>
        /\ remaining(Self) = Cardinality(Live)
        /\ \A s \in Live : UnknownCount(s) >= 2
        /\ sentence_buckets[1] = << >>

\* A run that learned a sentence and ended with a sentence still pending,
\* one that a learn_sentence call had moved to a lower bucket.
EndOfRunReportWitness ==
    /\ driver
    /\ last.op = "get_next"
    /\ last.ret = None
    /\ sequence_data # << >>
    /\ \E s \in Live : UnknownCount(s) < Cardinality(InitialUnknown(s))

InBucketOf(buckets, s, n) ==
    IF n = 1 THEN s \in Range(buckets[1]) ELSE s \in buckets[n]

\* C19 (frame of learn_sentence): a learn_sentence call on a sentence with a
\* record changes the record and the bucket membership of that sentence and
\* of the sentences that contain one of its unknown words, and of no other:
\* every other sentence with a record keeps the record and is in the same
\* buckets afterwards.
LearnFrame ==
    [][ LearnLiveStep =>
          \A t \in Live \ {last'.arg} :
             (Range(sentence_data[t].words)
                  \cap sentence_data[last'.arg].unknown = {}) =>
                /\ t \in DOMAIN sentence_data'
                /\ sentence_data'[t] = sentence_data[t]
                /\ \A n \in 1..MaxSentLen :
                      InBucketOf(sentence_buckets', t, n)
                          <=> InBucketOf(sentence_buckets, t, n) ]_vars

\* The step is learn_sentence called with the sentence the preceding call,
\* a get_next_sentence call, returned.
LearnReturnedStep ==
    /\ last.op = "get_next"
    /\ last.ret # None
    /\ last'.op = "learn"
    /\ last'.arg = last.ret

\* The entries of a count-1 list that the _update_buckets call of the step
\* does not touch: those of the learned sentence, of sentences without a
\* record, and of sentences that contain none of the learned words.
Untouched(bucket) ==
    LET keep(x) ==
            \/ x = last'.arg
            \/ x \notin Live
            \/ Range(sentence_data[x].words)
                   \cap sentence_data[last'.arg].unknown = {}
    IN  SelectSeq(bucket, keep)

\* C20 (front-of-list removal): when learn_sentence is called with the
\* sentence the immediately preceding get_next_sentence call returned, that
\* sentence is the first element of the count-1 list, the call returns, and
\* the pop removes that entry and no other: the entries the call does not
\* otherwise touch are those of the rest of the list, in the same order.
FrontRemoval ==
    [][ LearnReturnedStep =>
          /\ sentence_buckets[1] # << >>
          /\ Head(sentence_buckets[1]) = last'.arg
          /\ last'.err = "none"
          /\ Untouched(sentence_buckets'[1])
                 = Untouched(Tail(sentence_buckets[1])) ]_vars

\* learn_sentence was called with the sentence get_next_sentence had just
\* returned, and an entry that stood behind it is still in the count-1 list.
FrontRemovalWitness ==
    /\ last.op = "learn"
    /\ driver
    /\ last.err = "none"
    /\ \E t \in Range(sentence_buckets[1]) :
          /\ t \in Live
          /\ Range(sentence_data[t].words) \cap last.new_words = {}
          /\ UnknownCount(t) = Cardinality(InitialUnknown(t))

\* The number of words the segmenter finds in a sentence.
TokenCount(s) == Len(segment(s))

\* The sentence is somewhere in the index: a record, a bucket, or the
\* reverse index.
Indexed(s) ==
    \/ s \in Live
    \/ \E n \in 1..MaxSentLen : InBucket(s, n)
    \/ \E w \in DOMAIN word_to_sentences : s \in word_to_sentences[w]

\* C14 (admission bounds): after the construction, a sentence of the corpus
\* with fewer than 3 words or more than 20 words is in no bucket, has no
\* record and is in no entry of the reverse index, however many of its
\* words are unknown; a sentence of 25 words is not indexed.
AdmissionBounds ==
    (last.op = "init") =>
        \A i \in 1..Len(sentences) :
            (TokenCount(sentences[i]) < 3 \/ TokenCount(sentences[i]) > 20)
                => ~Indexed(sentences[i])

\* The text the words of a segmentation spell, as a sequence of characters
\* (every word of the model is one character).
Concatenation(words) == [i \in 1..Len(words) |-> words[i]]

\* C15 (MalformedSegmentation): after the construction, a sentence of the
\* corpus whose words do not concatenate back to its text is not indexed,
\* and every other sentence of the corpus with an unknown word is.
MalformedSegmentation ==
    (last.op = "init") =>
        \A i \in 1..Len(sentences) :
            LET s == sentences[i]
            IN  IF Concatenation(segment(s)) # s
                THEN ~Indexed(s)
                ELSE InitialUnknown(s) # {} =>
                        s \in Live /\ InBucket(s, UnknownCount(s))

\* ''.join(words)
RECURSIVE Join(_)
Join(words) == IF words = << >> THEN << >> ELSE Head(words) \o Join(Tail(words))

\* C12 (segmentation round-trip): for every text, every word list and every
\* max_word_len of at least 1, segment_sentence returns, and the words it
\* returns, concatenated in order, are the text.
SegmentationRoundTrip ==
    /\ [](seg.pc = "done" => Join(seg.words) = seg.sentence)
    /\ <>(seg.pc = "done")

\* segment_sentence has returned a segmentation with a word of several
\* characters from the list and a single character it did not find.
SegmentationRoundTripWitness ==
    /\ seg.pc = "done"
    /\ seg.unknown_words # << >>
    /\ \E k \in 1..Len(seg.words) : Len(seg.words[k]) >= 2

\* The sets the two organizers and the module refer to are three objects.
NoSharedSet ==
    /\ twin.engines[1].known_words # twin.engines[2].known_words
    /\ \A e \in Engines : twin.engines[e].known_words # ModuleSet

\* A call leaves the organizer it was not made on as it was: its fields and
\* the set its known_words refers to; it leaves the rank table and the
\* module-level PUNCTUATION as they were.
OtherEngineUnchanged ==
    /\ \A e \in Engines \ {twin'.called} :
          /\ twin'.engines[e] = twin.engines[e]
          /\ twin'.heap[twin.engines[e].known_words]
                 = twin.heap[twin.engines[e].known_words]
    /\ twin'.heap[ModuleSet] = twin.heap[ModuleSet]
    /\ twin'.word_ranks = twin.word_ranks

\* C16 (independent engines): two SentenceOrganizer objects built from the
\* same arguments share no mutable set, and a get_next_sentence or
\* learn_sentence call on one leaves the other's known_words, records,
\* buckets, reverse index, skip counter and batch counter unchanged, and
\* leaves the rank table and the module-level PUNCTUATION unchanged.
IndependentEngines ==
    /\ [](NoSharedSet /\ twin.heap[ModuleSet] = PUNCTUATION)
    /\ [][OtherEngineUnchanged]_vars

\* learn_sentence on the first organizer has taught it a word the second,
\* built from the same arguments, does not know.
IndependentEnginesWitness ==
    /\ twin.op = "learn"
    /\ twin.called = 1
    /\ twin.err = "none"
    /\ twin.heap[twin.engines[1].known_words]
           # twin.heap[twin.engines[2].known_words]
    /\ twin.engines[2].sentence_data # EmptyDict

\* C21 (priority tracks the current unknown set): after the construction and
\* after every call that returned, the max_rank stored in each sentence
\* record is the largest rank among the words now in its unknown set, a
\* word the rank table lacks counting as float('inf').
PriorityTracksUnknown ==
    (last.err = "none") =>
        \A s \in Live :
            sentence_data[s].max_rank =
                Max({ rank_of(word_ranks, w) : w \in sentence_data[s].unknown })

\* The number of entries of a list that are the sentence s.
Occurrences(l, s) == Cardinality({ i \in 1..Len(l) : l[i] = s })

\* get_next_sentence, called in this state, cleans and sorts the count-1
\* list at once (line 114).
CleanupStep ==
    /\ last'.op = "get_next"
    /\ sentence_buckets[1] # << >>
    /\ ~has_n1_counter \/ n1_counter <= 0

\* C22 (cleanup and re-sort): a get_next_sentence call that finds the batch
\* counter absent or not positive and the count-1 list non-empty drops every
\* entry without a record and keeps the others, orders them by non-decreasing
\* max_rank, and sets the counter to ceil(n/2) for the n entries kept (the
\* call then returns the first of them and has counted it: the counter is
\* ceil(n/2) - 1 afterwards); the sentence returned has the smallest max_rank
\* of all sentences with a record and one unknown word.
CleanupAndResort ==
    [][ CleanupStep =>
          LET live(s) == s \in Live
              kept    == SelectSeq(sentence_buckets[1], live)
              bucket  == sentence_buckets'[1]
          IN  /\ \A s \in Sentences :
                    Occurrences(bucket, s) = Occurrences(kept, s)
              /\ \A i, j \in 1..Len(bucket) :
                    i < j => sentence_data[bucket[i]].max_rank
                                 <= sentence_data[bucket[j]].max_rank
              /\ IF kept = << >>
                 THEN last'.ret = None
                 ELSE /\ has_n1_counter'
                      /\ n1_counter' = (Len(kept) + 1) \div 2 - 1
                      /\ last'.ret = Head(bucket)
                      /\ \A t \in Live :
                            UnknownCount(t) = 1 =>
                               sentence_data[last'.ret].max_rank
                                   <= sentence_data[t].max_rank ]_vars

\* The same statement for the calls of generate_sequence alone.
DriverCleanupAndResort ==
    [][ (driver' /\ CleanupStep) =>
          LET live(s) == s \in Live
              kept    == SelectSeq(sentence_buckets[1], live)
              bucket  == sentence_buckets'[1]
          IN  /\ \A s \in Sentences :
                    Occurrences(bucket, s) = Occurrences(kept, s)
              /\ \A i, j \in 1..Len(bucket) :
                    i < j => sentence_data[bucket[i]].max_rank
                                 <= sentence_data[bucket[j]].max_rank
              /\ IF kept = << >>
                 THEN last'.ret = None
                 ELSE /\ has_n1_counter'
                      /\ n1_counter' = (Len(kept) + 1) \div 2 - 1
                      /\ last'.ret = Head(bucket)
                      /\ \A t \in Live :
                            UnknownCount(t) = 1 =>
                               sentence_data[last'.ret].max_rank
                                   <= sentence_data[t].max_rank ]_vars

\* C23 (bounded staleness): from one cleanup-and-sort of the count-1 list to
\* the next, get_next_sentence returns at most ceil(n/2) sentences, n being
\* the length of the list right after the sort (the return of the call that
\* sorted included); the batch counter is never negative after a call.
BoundedStaleness ==
    /\ batch.returns <= (batch.size + 1) \div 2
    /\ has_n1_counter => n1_counter >= 0

\* A batch of three or more sentences has been served to its limit,
\* the second of them after a learn_sentence call and without a new sort.
BoundedStalenessWitness ==
    /\ last.op = "get_next"
    /\ last.ret # None
    /\ batch.size >= 3
    /\ batch.returns = (batch.size + 1) \div 2
    /\ batch.returns >= 2
    /\ n1_counter = 0
    /\ sequence_data # << >>

\* The step is a get_next_sentence call that follows a get_next_sentence
\* call.
SecondPickStep == last.op = "get_next" /\ last'.op = "get_next"

\* C24 (repeatable pick): get_next_sentence called twice in a row, with no
\* learn_sentence call in between, returns the same sentence both times.
RepeatablePick ==
    [][ SecondPickStep => last'.ret = last.ret ]_vars

\* C24 as the code has it: the second of two get_next_sentence calls in a
\* row returns what the first returned, unless the first call brought the
\* batch counter to 0 and the count-1 list holds a sentence with a record
\* and a smaller max_rank than the one returned; the second call then sorts
\* the list and returns a sentence of smaller max_rank.
RepeatablePickUnlessResort ==
    [][ SecondPickStep =>
          \/ last'.ret = last.ret
          \/ /\ last.ret # None
             /\ n1_counter = 0
             /\ last'.ret \in Live
             /\ last'.ret \in Range(sentence_buckets[1])
             /\ sentence_data[last'.ret].max_rank
                    < sentence_data[last.ret].max_rank ]_vars

\* get_next_sentence has returned the front of the count-1 list and used up
\* the batch, and a sentence appended since the last sort has a smaller
\* max_rank: the next call will return that one.
RepeatablePickWitness ==
    /\ last.op = "get_next"
    /\ last.ret # None
    /\ n1_counter = 0
    /\ batch.returns >= 2
    /\ \E t \in Range(sentence_buckets[1]) :
          /\ t \in Live
          /\ sentence_data[t].max_rank < sentence_data[last.ret].max_rank

\* C25 (frame of get_next_sentence): a get_next_sentence call leaves
\* known_words, every sentence record, the reverse index, the skip counter,
\* the n+2 counter and the buckets of the counts 2 and more as they were,
\* and keeps every entry of the count-1 list that has a record; it adds no
\* entry.  It may drop entries without a record, reorder the list and set
\* the batch counter.
GetNextFrame ==
    [][ (last'.op = "get_next") =>
          /\ known_words' = known_words
          /\ sentence_data' = sentence_data
          /\ word_to_sentences' = word_to_sentences
          /\ skipped_sentences' = skipped_sentences
          /\ n2_sentences_used' = n2_sentences_used
          /\ \A n \in 2..MaxSentLen :
                sentence_buckets'[n] = sentence_buckets[n]
          /\ \A s \in Live :
                Occurrences(sentence_buckets'[1], s)
                    = Occurrences(sentence_buckets[1], s)
          /\ \A s \in Range(sentence_buckets'[1]) :
                Occurrences(sentence_buckets'[1], s)
                    <= Occurrences(sentence_buckets[1], s) ]_vars

\* A get_next_sentence call after a learn_sentence call has sorted the list
\* and returned a sentence, while a sentence waits in a higher bucket.
GetNextFrameWitness ==
    /\ last.op = "get_next"
    /\ last.ret # None
    /\ sequence_data # << >>
    /\ batch.returns = 1
    /\ \E t \in Live : UnknownCount(t) >= 2

\* C26 (reverse-index completeness): after the construction and after every
\* call that returned, for every sentence record and every word of its
\* unknown set, word_to_sentences has an entry for the word and the entry
\* contains the sentence.
ReverseIndexCompleteness ==
    (last.err = "none") =>
        \A s \in Live :
            \A w \in sentence_data[s].unknown :
                /\ w \in DOMAIN word_to_sentences
                /\ s \in word_to_sentences[w]

\* After a learn_sentence call that deleted an entry of the reverse index,
\* two sentences with a record wait for the same word.
ReverseIndexCompletenessWitness ==
    /\ last.op = "learn"
    /\ last.err = "none"
    /\ last.new_words # {}
    /\ \E s, t \in Live :
          /\ s # t
          /\ sentence_data[s].unknown \cap sentence_data[t].unknown # {}

(***************************************************************************)
(* Incremental update and full rescan.                                      *)
(***************************************************************************)
rescan_unknown(s) ==
    (CHOOSE e \in Range(rescan.sentence_data) : e.sentence = s).unknown

SameRecords ==
    /\ rescan_keys(rescan) = Live
    /\ \A s \in Live : rescan_unknown(s) = sentence_data[s].unknown

\* Every live sentence is held by the same buckets of the two organizers.
SamePartition ==
    \A n \in 1..MaxSentLen :
        \A s \in Live :
            (s \in Range(rescan.sentence_buckets[n]))
                <=> InBucketOf(sentence_buckets, s, n)

\* C27: after the same construction and the same learned sentences, the
\* incremental organizer and the full-rescan organizer hold the same live
\* sentences, the same unknown set for each of them, and the same buckets
\* for each of them.
IncrementalEqualsRescan ==
    (last.err = "none") => (SameRecords /\ SamePartition)

\* The records agree after every sequence of learned sentences.
IncrementalRecordsEqualRescan ==
    (last.err = "none") => SameRecords

\* The buckets agree too when the learned sentences are the ones
\* get_next_sentence returned.
DriverIncrementalEqualsRescan ==
    (driver /\ last.err = "none") => (SameRecords /\ SamePartition)

(***************************************************************************)
(* The life of a record.                                                    *)
(***************************************************************************)
Corpus == Range(sentences)

\* The number of entries of the buckets that are the sentence s.
Entries(buckets, s) ==
    Occurrences(buckets[1], s)
        + Cardinality({ n \in 2..MaxSentLen : s \in buckets[n] })

\* C28 (record lifecycle): from one state between calls to the next, no
\* record is created, the unknown set of a record that stays does not grow
\* in size, and a sentence without a record gains no bucket entry.
RecordLifecycle ==
    [][ (last'.err = "none") =>
          /\ DOMAIN sentence_data' \subseteq Live
          /\ \A s \in DOMAIN sentence_data' :
                Cardinality(sentence_data'[s].unknown) <= UnknownCount(s)
          /\ \A s \in Corpus \ DOMAIN sentence_data' :
                Entries(sentence_buckets', s)
                    <= Entries(sentence_buckets, s) ]_vars

\* A sentence has been learned; another sentence was resolved by it and is
\* without a record, and a third has fewer unknown words than at
\* construction.
RecordLifecycleWitness ==
    /\ last.op = "learn"
    /\ last.err = "none"
    /\ Len(sequence_data) >= 1
    /\ \E s \in Corpus \ Live :
          /\ \A i \in 1..Len(sequence_data) : sequence_data[i].Sentence # s
          /\ Range(segment(s)) \subseteq
                 initial_words \cup PUNCTUATION \cup sequence_data[1].New_Words
    /\ \E t \in Live :
          UnknownCount(t) <
              Cardinality(Range(segment(t)) \ (initial_words \cup PUNCTUATION))

(***************************************************************************)
(* The output sequence.                                                     *)
(***************************************************************************)
Committed == { sequence_data[i].Sentence : i \in 1..Len(sequence_data) }

\* C29 (no sentence is served twice): a sentence get_next_sentence has just
\* returned has a record and was not learned before, and no sentence is
\* twice in the output sequence, whatever the corpus repeats.
NoSentenceTwice ==
    /\ (last.op = "get_next" /\ last.err = "none" /\ last.ret # None) =>
            /\ last.ret \in Live
            /\ last.ret \notin Committed
    /\ \A i, j \in 1..Len(sequence_data) :
            (i # j) => sequence_data[i].Sentence # sequence_data[j].Sentence

\* The run of generate_sequence is over for a corpus that holds one text
\* twice; that text and another sentence are in the output.
NoSentenceTwiceWitness ==
    /\ driver
    /\ last.op = "get_next"
    /\ last.ret = None
    /\ Len(sequence_data) >= 2
    /\ \E i, j \in 1..Len(sentences) :
          /\ i < j
          /\ sentences[i] = sentences[j]
          /\ sentences[i] \in Committed

(***************************************************************************)
(* Termination.                                                             *)
(***************************************************************************)
\* The number of records construction has made.
IndexedAtInit ==
    Cardinality({ s \in Corpus :
        Range(segment(s)) \ (initial_words \cup PUNCTUATION) # {} })

\* Every retry of a get_next_sentence call on self comes after the loop has
\* dropped one or more entries without a record from the front of the
\* count-1 list, and nothing else of the list.
RECURSIVE EachRetryRemoves(_)
EachRetryRemoves(self) ==
    LET next    == retry(self)
        before  == self.sentence_buckets[1]
        after   == next.self.sentence_buckets[1]
        dropped == Len(before) - Len(after)
    IN  next.reached =>
            /\ dropped >= 1
            /\ after = SubSeq(before, dropped + 1, Len(before))
            /\ \A i \in 1..dropped :
                  before[i] \notin DOMAIN self.sentence_data
            /\ EachRetryRemoves(next.self)

\* The loop of generate_sequence has left by its break.
Stopped == last.op = "get_next" /\ last.ret = None /\ last.err = "none"

\* C30 (termination): a get_next_sentence call retries only after it has
\* removed an entry without a record, so it returns; the loop of
\* generate_sequence learns no more sentences than construction indexed,
\* and it stops.
Termination ==
    /\ [](EachRetryRemoves(Self) /\ Len(sequence_data) <= IndexedAtInit)
    /\ <>Stopped

\* The loop has stopped after one iteration for each sentence indexed, and
\* the call that ended it retried.
TerminationWitness ==
    /\ Stopped
    /\ Len(sequence_data) = IndexedAtInit
    /\ Len(sequence_data) >= 1
    /\ last.retries >= 1

(***************************************************************************)
(* Conservation of sentences.                                               *)
(***************************************************************************)
DistinctCorpus == Cardinality(Corpus) = Len(sentences)

\* C31 (sentence conservation): for a corpus of pairwise distinct sentences,
\* between calls the number of corpus sentences is the number of sentences
\* learn_sentence has committed plus skipped_sentences plus the number of
\* records; skipped_sentences never decreases, and a call that commits a
\* sentence leaves the sum of skipped_sentences and records one smaller, so
\* the committed sentence is not counted as skipped.
SentenceConservation ==
    /\ []((DistinctCorpus /\ last.err = "none") =>
            Len(sentences) =
                Len(sequence_data) + skipped_sentences + Cardinality(Live))
    /\ [][ /\ skipped_sentences' >= skipped_sentences
           /\ (DistinctCorpus /\ last'.op = "learn" /\ last'.err = "none") =>
                 skipped_sentences' + Cardinality(DOMAIN sentence_data')
                     = skipped_sentences + Cardinality(Live) - 1 ]_vars

\* Of three distinct sentences one has been committed, one was resolved by
\* that and counted as skipped, and one still has a record.
SentenceConservationWitness ==
    /\ DistinctCorpus
    /\ last.op = "learn"
    /\ last.err = "none"
    /\ Len(sequence_data) = 1
    /\ skipped_sentences = 1
    /\ Cardinality(Live) = 1
    /\ \E s \in Corpus \ (Live \cup Committed) :
          Range(segment(s)) \ (initial_words \cup PUNCTUATION) # {}

(***************************************************************************)
(* What the indices keep of a sentence whose record is deleted.             *)
(***************************************************************************)
\* The words under which the reverse index holds the sentence s.
IndexedUnder(index, s) == { w \in DOMAIN index : s \in index[w] }

\* C32 as stated (removal from all indices): after a call that deletes the
\* record of a sentence, no bucket holds the sentence and no entry of the
\* reverse index holds it.
RemovedFromAllIndices ==
    [][ (last'.err = "none") =>
          \A s \in Live \ DOMAIN sentence_data' :
              /\ Entries(sentence_buckets', s) = 0
              /\ IndexedUnder(word_to_sentences', s) = {} ]_vars

\* C32 as the code has it: a sentence of the corpus without a record is in
\* no bucket of two or more unknown words, and the reverse index holds it
\* only under words that were known at construction; the count-1 list may
\* still hold it.
RemovedFromLiveIndices ==
    (last.err = "none") =>
        \A s \in Corpus \ Live :
            /\ \A n \in 2..MaxSentLen : s \notin sentence_buckets[n]
            /\ IndexedUnder(word_to_sentences, s) \subseteq initial_words

\* A sentence has been committed and another resolved by the same call; the
\* reverse index still holds both under a word known from the start, and
\* the count-1 list still holds one of them.
RemovedFromLiveIndicesWitness ==
    /\ last.op = "learn"
    /\ last.err = "none"
    /\ IndexedUnder(word_to_sentences, last.arg) # {}
    /\ \E s \in Corpus \ (Live \cup {last.arg}) :
          IndexedUnder(word_to_sentences, s) # {}
    /\ \E s \in Corpus \ Live : Occurrences(sentence_buckets[1], s) > 0

(***************************************************************************)
(* The end of a run of the full-rescan organizer.                           *)
(***************************************************************************)
\* C33 (full-rescan organizer, end of run): when get_next_sentence has been
\* called with no sentence of one unknown word and none of two, it has
\* returned None, so that the loop leaves by its break.
RescanEndOfRun ==
    ( /\ last.op = "get_next"
      /\ rescan.sentence_buckets[1] = << >>
      /\ rescan.sentence_buckets[2] = << >> )
        => (last.err = "none" /\ last.ret = None)

(***************************************************************************)
(* Greedy longest match.                                                    *)
(***************************************************************************)
\* The entries of the word list, no longer than max_word_len, that start at
\* position i of the sentence.
EntriesAt(s, i) ==
    { w \in s.word_list :
        /\ Len(w) >= 1
        /\ Len(w) <= s.max_word_len
        /\ i + Len(w) <= Len(s.sentence)
        /\ SubSeq(s.sentence, i + 1, i + Len(w)) = w }

\* An iteration of the loop of segment_sentence: it starts where the tokens
\* so far end, emits one token that lies at that position, the longest
\* entry of the word list there if there is one and the character there if
\* not, and goes on behind the token.
GreedyStep ==
    LET token == seg'.words[Len(seg'.words)]
    IN  /\ seg.i = Len(Join(seg.words))
        /\ seg'.words = Append(seg.words, token)
        /\ token = SubSeq(seg.sentence, seg.i + 1, seg.i + Len(token))
        /\ seg'.i = seg.i + Len(token)
        /\ IF EntriesAt(seg, seg.i) # {}
           THEN /\ token \in EntriesAt(seg, seg.i)
                /\ \A w \in EntriesAt(seg, seg.i) : Len(w) <= Len(token)
           ELSE token = << seg.sentence[seg.i + 1] >>

\* C34 (greedy longest match): segment_sentence scans from left to right
\* without gap or overlap; at each position it emits the longest entry of
\* the word list, of at most max_word_len characters, that starts there, or
\* the character there if no entry does.  It adds only single characters to
\* the word list and removes nothing from it.
GreedyLongestMatch ==
    [][ (seg.pc = "loop") =>
          /\ (seg'.pc = "loop") => GreedyStep
          /\ (seg'.pc = "done") =>
                /\ seg.i = Len(seg.sentence)
                /\ seg'.words = seg.words
          /\ seg.word_list \subseteq seg'.word_list
          /\ \A w \in seg'.word_list \ seg.word_list : Len(w) = 1 ]_vars

\* segment_sentence has returned; it took a word of the list although a
\* shorter entry started at the same place, and it added a character to the
\* list.
GreedyLongestMatchWitness ==
    /\ seg.pc = "done"
    /\ \E k \in 1..Len(seg.words) :
          /\ Len(seg.words[k]) >= 2
          /\ SubSeq(seg.words[k], 1, 1) \in seg.word_list
    /\ seg.word_list \ Dictionary # {}

(***************************************************************************)
(* The list split_audio returns.                                            *)
(***************************************************************************)
\* C35 (audio split alignment): whatever the order in which the worker
\* processes finish, position i of the list split_audio returns (counted
\* from 0) holds the filename built from the index i + 1 and the text of
\* that segment, also for a segment whose ffmpeg call failed; no position
\* is written twice, and at the return each has been written once.
SplitAlignment ==
    (split.pc # "idle") =>
        /\ Len(split.output_files) = Len(split.segments)
        /\ \A idx \in 1..Len(split.segments) :
              /\ Occurrences(split.order, idx) <= 1
              /\ (split.pc = "done" \/ Occurrences(split.order, idx) = 1) =>
                    /\ Occurrences(split.order, idx) = 1
                    /\ split.output_files[idx] =
                           << idx, sanitize_filename(split.segments[idx]) >>

\* split_audio has returned for three segments or more; the result of the
\* last segment was taken first, and it was a failure.
SplitAlignmentWitness ==
    /\ split.pc = "done"
    /\ Len(split.segments) >= 3
    /\ split.order[1] = Len(split.segments)
    /\ split.order[1] \in split.errors

(***************************************************************************)
(* The output CSV over two calls.                                           *)
(***************************************************************************)
\* The Sentence fields of the rows of a file.
SentencesOf(file) == { file.rows[i].Sentence : i \in 1..Len(file.rows) }

\* C36 (incremental enhancement): a call processes only sentences that are
\* not in the output CSV it finds; the rows it adds hold, for each sentence
\* processed, the words cut from that sentence, or empty fields if the
\* processing failed; the second call on the same input processes nothing
\* and leaves the output CSV as the first call left it.
IncrementalEnhancement ==
    (enhance.pc # "idle") =>
        /\ \A s \in enhance.processed[enhance.calls] :
              write_value(s) \notin SentencesOf(enhance.before[enhance.calls])
        /\ (enhance.pc = "returned" /\ enhance.calls = 1) =>
              LET old == enhance.before[1].rows
                  new == enhance.output.rows
              IN  /\ SubSeq(new, 1, Len(old)) = old
                  /\ Len(new) = Len(old) + Len(enhance.df)
                  /\ \A i \in 1..Len(enhance.df) :
                        LET row == new[Len(old) + i]
                        IN  /\ row.Sentence =
                                  enhance.input[enhance.df[i].idx]
                            /\ row.segmented_words
                                  \in {"", cut(row.Sentence)}
        /\ (enhance.calls = 2) =>
              /\ enhance.pc = "returned"
              /\ enhance.processed[2] = {}
              /\ enhance.output = enhance.before[2]

\* The second call has returned; the first had found an output file with a
\* sentence of the input in it, and had added two rows or more to it, one
\* with empty fields for a sentence whose processing failed.
IncrementalEnhancementWitness ==
    /\ enhance.calls = 2
    /\ enhance.pc = "returned"
    /\ enhance.before[1].exists
    /\ \E i \in 1..Len(enhance.input) :
          enhance.input[i] \in SentencesOf(enhance.before[1])
    /\ Len(enhance.output.rows) >= Len(enhance.before[1].rows) + 2
    /\ \E i \in (Len(enhance.before[1].rows) + 1)..Len(enhance.output.rows) :
          /\ enhance.output.rows[i].Sentence # ""
          /\ enhance.output.rows[i].segmented_words = ""

=============================================================================
